---- MODULE Spec2Model ----
(***************************************************************************)
(* The Snowball session state machine of wallet/src/snowball/mod.rs: one   *)
(* Snowball instance per node, driven by pool notifications, peer          *)
(* payloads and the phase timer.  Cryptographic values are abstract: a     *)
(* hash is an injective constructor, a cloaked matrix is the pair (is it   *)
(* well formed, which commit-phase participant list encoded it).           *)
(***************************************************************************)
EXTENDS Integers, Sequences, FiniteSets, TLC

\* ------------------------------------------------------------------ bounds
MaxQueue == 1
MaxAnnounce == 2
HashSize == 2

\* start(), commit(), share_cloaked_data(), make_supertransaction():
\* "if self.participants.len() < 3"
MIN_PARTICIPANTS == 3
\* the output slots of a participant
MAX_UTXOS == 5

\* the participant ids of the pool (ParticipantID is totally ordered)
Nodes == {1, 2, 3, 4}
Facilitators == {"F1", "F2"}
NoFacilitator == "none"

Kinds == <<"SharedKeying", "Commitment", "CloakedVals", "Signature", "SecretKeying">>
KindSet == {Kinds[i] : i \in 1..Len(Kinds)}

\* ------------------------------------------------------------ pure helpers
SeqToSet(q) == {q[i] : i \in 1..Len(q)}

RECURSIVE InsertSorted(_, _)
InsertSorted(x, q) ==
    IF q = <<>> THEN <<x>>
    ELSE IF x <= Head(q) THEN <<x>> \o q
    ELSE <<Head(q)>> \o InsertSorted(x, Tail(q))

\* a list left in the order it has
KeepOrder(q) == q

\* Vec::sort on ParticipantID (total order on ids)
RECURSIVE Sorted(_)
Sorted(q) == IF q = <<>> THEN <<>> ELSE InsertSorted(Head(q), Sorted(Tail(q)))

\* Vec::dedup: drops consecutive repeats
RECURSIVE Dedup(_)
Dedup(q) ==
    IF Len(q) <= 1 THEN q
    ELSE IF q[1] = q[2] THEN Dedup(Tail(q))
    ELSE <<q[1]>> \o Dedup(Tail(q))

\* a retain that removes nobody
RetainAll(q, excl) == q

\* Vec::retain(|p| !p_excl.contains(p))
RECURSIVE Retain(_, _)
Retain(q, excl) ==
    IF q = <<>> THEN <<>>
    ELSE IF Head(q) \in excl THEN Retain(Tail(q), excl)
    ELSE <<Head(q)>> \o Retain(Tail(q), excl)

IsSorted(q) == \A i \in 1..Len(q) : \A j \in 1..Len(q) : i < j => q[i] <= q[j]

\* ------------------------------------------------------------------ leader
\* a hash is HashSize bytes of ByteBits bits
ByteBits == 1
MaxByte == (2 ^ ByteBits) - 1
Bytes == 0..MaxByte
ByteVecs == [1..HashSize -> Bytes]

\* u8 ^ u8
RECURSIVE Xor(_, _)
Xor(a, b) ==
    IF a = 0 THEN b
    ELSE IF b = 0 THEN a
    ELSE (((a % 2) + (b % 2)) % 2) + 2 * Xor(a \div 2, b \div 2)

\* pbits.iter().zip(hbits.iter()).map(|(p, h)| *p ^ *h)
XorBits(p, h) == [i \in 1..HashSize |-> Xor(p[i], h[i])]

\* Hasher: what is fed to it is mixed in one item after the other, so the
\* result depends on the order of the items
Rot(v) == [i \in 1..HashSize |-> v[(i % HashSize) + 1]]

RECURSIVE ListHash(_, _, _)
ListHash(list, digest, state) ==
    IF list = <<>> THEN state
    ELSE ListHash(Tail(list), digest, XorBits(Rot(state), digest[Head(list)]))

\* a comparison that stops at the first byte that differs
LexLess(x, m) ==
    \E i \in 1..HashSize : x[i] < m[i] /\ \A j \in 1..(i - 1) : x[j] = m[j]

\* leader_id, the inner loop: "for (hp, hm) in xor_bits.iter().zip(
\* min_xor.iter()) { if *hp < *hm { ...; break; } }" replaces the minimum
\* when some byte of xor_bits is below the byte of min_xor at its place
ReplacesMin(x, m) == \E i \in 1..HashSize : x[i] < m[i]

\* leader_id, the loop over the participants
RECURSIVE LeaderLoop(_, _, _, _, _)
LeaderLoop(list, digest, hash, min_part, min_xor) ==
    IF list = <<>> THEN min_part
    ELSE LET p == Head(list)
             xor_bits == XorBits(digest[p], hash)
         IN IF ReplacesMin(xor_bits, min_xor)
            THEN LeaderLoop(Tail(list), digest, hash, p, xor_bits)
            ELSE LeaderLoop(Tail(list), digest, hash, min_part, min_xor)

\* a leader election on the participants in the order they are held
LeaderIdUnsorted(participants, digest, salt) ==
    LeaderLoop(participants, digest, ListHash(participants, digest, salt),
               participants[1], [i \in 1..HashSize |-> MaxByte])

\* leader_id: digest[p] is Hash::digest(p), salt the initial state of the
\* Hasher
LeaderId(participants, digest, salt) ==
    LET sorted == Sorted(participants)
    IN  LeaderLoop(sorted, digest, ListHash(sorted, digest, salt),
                   sorted[1], [i \in 1..HashSize |-> MaxByte])

\* the hashes of the participant ids where sessions run: the digits of the id
NodeDigest(p) == [i \in 1..HashSize |-> (p \div (2 ^ (ByteBits * (i - 1)))) % (MaxByte + 1)]
NodeSalt == [i \in 1..HashSize |-> 0]

\* ------------------------------------------------------------ session ids
\* Hash::random() of Snowball::new
RandomSid(n) == [base |-> 0, chain |-> << <<0, <<n>> >> >>]
\* the facilitator's session id of a PoolAnnounce
AnnouncedSid(b) == [base |-> b, chain |-> <<>>]
\* a session id no instance ever derives
StaleSid == [base |-> 0 - 1, chain |-> <<>>]

\* start(): H("sid" || session_id || session_round || participants), the hash
\* modelled as an injective constructor over what is fed to the hasher
SessionIdHash(prev, round, parts) ==
    [base |-> prev.base, chain |-> Append(prev.chain, <<round, parts>>)]

\* start(): k = H("kVal" || session_id || my_signing_skey)
RoundK(sid, n) == [sid |-> sid, skey |-> n]

\* ------------------------------------------------------------ payload data
NoData == [set |-> FALSE, ok |-> FALSE, cp |-> {}]
\* hash_data(matrix, gamma_sum, fee_sum): injective over the cloaked data
HashData(ok, cp) == [set |-> TRUE, ok |-> ok, cp |-> cp]
NoCloaks == [set |-> FALSE, keys |-> {}]
NoTx == [sid |-> StaleSid, ins |-> {}, outs |-> {}]
\* stands for "the transaction the receiver builds" in a signature a
\* byzantine peer computed ahead of time
WildTx == [sid |-> StaleSid, ins |-> {0}, outs |-> {0}]
\* stands for "the receiver's commit-phase participants" in the data of a
\* byzantine peer
WildCp == {0}
NoSig == [set |-> FALSE, ok |-> FALSE, tx |-> NoTx, sid |-> StaleSid]
NoKey == [set |-> FALSE, ok |-> FALSE]

\* SnowballMessage {sid, source, payload}; one record shape for the five
\* payload arms: ok/cp describe the cloaked data (or the committed data, or
\* the truth of a signature / secret key), cloaks the keys of the cloaks map,
\* tx the transaction a signature signs
Msg(from, sid, kind, ok, cp, cloaks, tx) ==
    [from |-> from, sid |-> sid, kind |-> kind, ok |-> ok, cp |-> cp,
     cloaks |-> cloaks, tx |-> tx]

VARIABLES
    sb,         \* sb[n]: the Snowball instance of node n
    net,        \* payloads sent by honest instances, not yet delivered
    honest,     \* the nodes that run the code; the others are the adversary
    faulty,     \* the byzantine peers that send malformed content
    mistimed,   \* the byzantine peers that send out of phase
    announces,  \* number of PoolAnnounce notifications issued
    stops,      \* the last kind of payload the byzantine peers send
    lead,       \* a leader election: the hashes and the participants given
    dc,         \* a cloaked exchange: what went in and what was decoded
    own         \* a construction: the own inputs and outputs, what became of them

vars == <<sb, net, honest, faulty, mistimed, announces, stops, lead, dc, own>>

\* Snowball::new
InitSb(n) ==
    [me |-> n,
     facilitator |-> "F1",
     future_facilitator |-> NoFacilitator,
     poll_state |-> "PoolWait",
     participants |-> <<>>,
     pending_participants |-> {},
     timer |-> FALSE,
     msg_queue |-> <<>>,
     msg_state |-> "None",
     session_round |-> 0,
     session_id |-> RandomSid(n),
     my_round_k |-> RoundK(RandomSid(n), 0),
     sess_pkeys |-> {},
     my_txins |-> <<n>>,
     all_txins |-> {n},
     commit_phase_participants |-> <<>>,
     commits |-> [p \in Nodes |-> NoData],
     matrices |-> [p \in Nodes |-> NoData],
     excl_participants |-> <<>>,
     all_excl_cloaks |-> [p \in Nodes |-> NoCloaks],
     trans |-> NoTx,
     signatures |-> [p \in Nodes |-> NoSig],
     sess_skeys |-> [p \in Nodes |-> NoKey],
     result |-> "NotReady",
     is_leader |-> FALSE,
     \* what the last event did (for stating properties; not program state)
     calls |-> <<>>,
     sent |-> <<>>,
     handled |-> <<>>,
     waits |-> <<>>,
     event |-> "new",
     joined |-> "F1",
     answered |-> <<>>,
     rejected |-> {},
     sid_hist |-> {},
     sid_reused |-> FALSE,
     signed |-> {},
     received |-> [k \in KindSet |-> [p \in Nodes |-> StaleSid]]]

Errors == {"TooFewParticipants", "NotInParticipantList", "Panic"}

\* the SnowballError values a routine returns as Err
SnowballErrors == {"TooFewParticipants", "NotInParticipantList"}

\* an error returned without the inputs
PollReturnBareError(s) ==
    IF s.result \in SnowballErrors THEN <<"Err", s.result, <<>> >>
    ELSE <<"Ok", s.result, <<>> >>

\* poll: "result.map_err(|error| (error, self.my_txins.clone()))"
PollReturn(s) ==
    IF s.result \in SnowballErrors THEN <<"Err", s.result, s.my_txins>>
    ELSE <<"Ok", s.result, <<>> >>

\* ------------------------------------------------- bookkeeping of an event
Begin(s, ev) ==
    [s EXCEPT !.calls = <<>>, !.sent = <<>>, !.handled = <<>>, !.waits = <<>>,
              !.event = ev, !.result = "NotReady"]

LogCall(s, fn, by) ==
    [s EXCEPT !.calls = Append(@,
        [fn |-> fn, n |-> Len(s.participants), by |-> by,
         parts |-> SeqToSet(s.participants),
         cp |-> SeqToSet(s.commit_phase_participants),
         sid |-> s.session_id, round |-> s.session_round,
         rejected |-> s.rejected])]

\* send_signed_message: one envelope {sid, source, destination, payload} to
\* every member of self.participants but self
SendSignedMessage(s, kind, ok, cp, cloaks, tx) ==
    [s EXCEPT !.sent = Append(@,
        [kind |-> kind, sid |-> s.session_id,
         to |-> SeqToSet(s.participants) \ {s.me},
         ok |-> ok, cp |-> cp, cloaks |-> cloaks, tx |-> tx,
         at |-> Len(s.calls)])]

\* "self.receive_xxx()?; Ok(Async::NotReady)": an error propagates, any
\* other value of the nested call (Ready included) is dropped
AfterReceive(r) ==
    IF r.result \in Errors THEN r ELSE [r EXCEPT !.result = "NotReady"]

\* is_acceptable_message without the pending-sender test
IsAcceptableIgnoringPending(s, m) ==
    /\ m.sid = s.session_id
    /\ s.msg_state # "None"
    /\ m.kind = s.msg_state

IsAcceptableMessage(s, m) ==
    /\ m.sid = s.session_id
    /\ m.from \in s.pending_participants
    /\ s.msg_state # "None"
    /\ m.kind = s.msg_state

\* the participant count test left out
NeverTooFew(s) == FALSE

\* a session that needs four participants
TooFewForFour(s) == Len(s.participants) < MIN_PARTICIPANTS + 1

TooFew(s) == Len(s.participants) < MIN_PARTICIPANTS

\* had_dropouts that never reports a dropout
NoDropouts(s) == FALSE

HadDropouts(s) ==
    ~ ( /\ \A i \in 1..Len(s.participants) :
              s.participants[i] \in SeqToSet(s.commit_phase_participants)
        /\ \A i \in 1..Len(s.commit_phase_participants) :
              s.commit_phase_participants[i] \in SeqToSet(s.participants) )

\* handle_cloaked_vals without the comparison against the commitment
CloakedValsKeysOnly(s, m) ==
    /\ \A i \in 1..Len(s.excl_participants) : s.excl_participants[i] \in m.cloaks
    /\ \A p \in m.cloaks : p \in SeqToSet(s.excl_participants)

\* handle_cloaked_vals: the commitment opens and the cloaks map has exactly
\* the keys of excl_participants
CloakedValsCheck(s, m) ==
    /\ s.commits[m.from] = HashData(m.ok, m.cp)
    /\ \A i \in 1..Len(s.excl_participants) : s.excl_participants[i] \in m.cloaks
    /\ \A p \in m.cloaks : p \in SeqToSet(s.excl_participants)

\* the signature test of sign_supertransaction left out
SignaturesNotCounted(s) == TRUE

\* sign_supertransaction: every commit-phase participant has a signature
AllSignaturesPresent(s) ==
    \A i \in 1..Len(s.commit_phase_participants) :
        s.signatures[s.commit_phase_participants[i]].set

\* a partial signature is good when it signs the receiver's transaction
SigGood(sig, tx) == sig.set /\ sig.ok /\ (sig.tx = tx \/ sig.tx = WildTx)

\* no contribution decloaks to valid outputs
ContribNeverGood(s, p) == FALSE

\* a contribution decloaks to valid outputs when it is well formed and was
\* encoded against the receiver's commit-phase participant list
ContribGood(s, p) ==
    /\ s.matrices[p].set /\ s.matrices[p].ok
    /\ (s.matrices[p].cp = SeqToSet(s.commit_phase_participants)
        \/ s.matrices[p].cp = WildCp)

\* PaymentTransaction::validate on the aggregated transaction
ValidateTransaction(s) ==
    /\ s.trans.outs = s.trans.ins
    /\ \A p \in s.trans.ins \ {s.me} : SigGood(s.signatures[p], s.trans)

\* dicemix::dc_reconstruct with validate_uncloaked_contrib: the participants
\* whose revealed contribution fails
DcReconstruct(s) ==
    {p \in SeqToSet(s.commit_phase_participants) \ {s.me} :
        ~ContribGood(s, p) \/ ~SigGood(s.signatures[p], s.trans)
        \/ ~(s.sess_skeys[p].set /\ s.sess_skeys[p].ok)}

\* try_update_facilitator
TryUpdateFacilitator(s) ==
    IF s.future_facilitator # NoFacilitator
    THEN [s EXCEPT !.facilitator = s.future_facilitator,
                   !.future_facilitator = NoFacilitator]
    ELSE s

\* reset_state that leaves the timer armed
ResetStateKeepingTimer(s) ==
    TryUpdateFacilitator(
        [s EXCEPT !.poll_state = "PoolFinished", !.msg_state = "None",
                  !.msg_queue = <<>>, !.session_round = 0])

\* reset_state
ResetState(s) ==
    TryUpdateFacilitator(
        [s EXCEPT !.poll_state = "PoolFinished", !.msg_state = "None",
                  !.msg_queue = <<>>, !.session_round = 0, !.timer = FALSE])

\* handle_timer that opens the cloaked data when the SharedKeying wait expires
TimerRoutineSkippingCommit(st) ==
    CASE st = "SharedKeying" -> "share_cloaked_data"
      [] st = "Commitment" -> "share_cloaked_data"
      [] st = "CloakedVals" -> "make_supertransaction"
      [] st = "Signature" -> "sign_supertransaction"
      [] st = "SecretKeying" -> "blame_discovery"
      [] OTHER -> "panic"

\* the routine handle_timer runs for the wait state that expired
TimerRoutine(st) ==
    CASE st = "SharedKeying" -> "commit"
      [] st = "Commitment" -> "share_cloaked_data"
      [] st = "CloakedVals" -> "make_supertransaction"
      [] st = "Signature" -> "sign_supertransaction"
      [] st = "SecretKeying" -> "blame_discovery"
      [] OTHER -> "panic"

\* handlers where the last CloakedVals goes on to sign_supertransaction
HandlerRoutineSigningEarly(st) ==
    CASE st = "SharedKeying" -> "commit"
      [] st = "Commitment" -> "share_cloaked_data"
      [] st = "CloakedVals" -> "sign_supertransaction"
      [] st = "Signature" -> "sign_supertransaction"
      [] st = "SecretKeying" -> "blame_discovery"
      [] OTHER -> "none"

\* the routine each handle_* passes to maybe_do
HandlerRoutine(st) ==
    CASE st = "SharedKeying" -> "commit"
      [] st = "Commitment" -> "share_cloaked_data"
      [] st = "CloakedVals" -> "make_supertransaction"
      [] st = "Signature" -> "sign_supertransaction"
      [] st = "SecretKeying" -> "blame_discovery"
      [] OTHER -> "none"

\* prep_rx that leaves the queue alone
PrepRxWithoutQueue(s, msgtype) ==
    [s EXCEPT !.pending_participants = SeqToSet(s.participants) \ {s.me},
              !.participants = <<s.me>>,
              !.msg_state = msgtype,
              !.timer = TRUE,
              !.answered = <<>>,
              !.rejected = {},
              !.result = "NotReady",
              !.waits = Append(@, [st |-> msgtype, round |-> s.session_round,
                                   sid |-> s.session_id,
                                   entry |-> SeqToSet(s.participants),
                                   cp |-> SeqToSet(s.commit_phase_participants),
                                   at |-> Len(s.calls)])]

\* ------------------------------------------------------- the phase routines
RECURSIVE Start(_, _), PrepRx(_, _), HandleQueue(_, _), HandleMessage(_, _)
RECURSIVE MaybeDo(_, _), Run(_, _, _), Commit(_, _), ShareCloakedData(_, _)
RECURSIVE MakeSupertransaction(_, _), SignSupertransaction(_, _)
RECURSIVE BlameDiscovery(_, _), HandleEnqueuedMessages(_)

\* handle_enqueued_messages: the queue is taken, examined front to back;
\* an acceptable payload is handled, any other is pushed back
HandleEnqueuedMessages(s) ==
    HandleQueue([s EXCEPT !.msg_queue = <<>>], s.msg_queue)

HandleQueue(s, queue) ==
    IF queue = <<>> THEN [s EXCEPT !.result = "NotReady"]
    ELSE LET m == Head(queue) IN
        IF s.poll_state = "PoolFinished" THEN HandleQueue(s, Tail(queue))
        ELSE IF IsAcceptableMessage(s, m)
        THEN LET s1 == [s EXCEPT
                     !.pending_participants = @ \ {m.from},
                     !.answered = Append(@, m.from),
                     !.handled = Append(@,
                        [from |-> m.from, kind |-> m.kind, sid |-> m.sid,
                         cur_sid |-> s.session_id, state |-> s.msg_state,
                         round |-> s.session_round,
                         was_pending |-> m.from \in s.pending_participants,
                         was_rejected |-> m.from \in s.rejected])]
                 r == HandleMessage(s1, m)
             IN IF r.result = "NotReady" THEN HandleQueue(r, Tail(queue)) ELSE r
        ELSE HandleQueue([s EXCEPT !.msg_queue = Append(@, m)], Tail(queue))

\* prep_rx: the other participants become pending, the wait state is set,
\* the timer is replaced and the queue is examined again
PrepRx(s, msgtype) ==
    HandleEnqueuedMessages(
        [s EXCEPT !.pending_participants = SeqToSet(s.participants) \ {s.me},
                  !.participants = <<s.me>>,
                  !.msg_state = msgtype,
                  !.timer = TRUE,
                  !.answered = <<>>,
                  !.rejected = {},
                  !.waits = Append(@, [st |-> msgtype, round |-> s.session_round,
                                       sid |-> s.session_id,
                                       entry |-> SeqToSet(s.participants),
                                       cp |-> SeqToSet(s.commit_phase_participants),
                                       at |-> Len(s.calls)])])

\* maybe_do: the sender rejoins participants; when nobody is pending the
\* wait ends and the next routine runs
MaybeDo(s, from) ==
    LET s1 == [s EXCEPT !.participants = Append(@, from)] IN
    IF s1.pending_participants = {}
    THEN Run([s1 EXCEPT !.msg_state = "None"], HandlerRoutine(s.msg_state), "maybe_do")
    ELSE [s1 EXCEPT !.result = "NotReady"]

\* handle_message and the five handle_* functions
HandleMessage(s, m) ==
    CASE s.msg_state = "SharedKeying" ->
            MaybeDo([s EXCEPT !.sess_pkeys = @ \cup {m.from},
                              !.received["SharedKeying"][m.from] = m.sid], m.from)
      [] s.msg_state = "Commitment" ->
            MaybeDo([s EXCEPT !.commits[m.from] = HashData(m.ok, m.cp),
                              !.received["Commitment"][m.from] = m.sid], m.from)
      [] s.msg_state = "CloakedVals" ->
            IF ~s.commits[m.from].set THEN [s EXCEPT !.result = "Panic"]
            ELSE IF CloakedValsCheck(s, m)
            THEN MaybeDo([s EXCEPT
                    !.matrices[m.from] = [set |-> TRUE, ok |-> m.ok, cp |-> m.cp],
                    !.all_excl_cloaks[m.from] = [set |-> TRUE, keys |-> m.cloaks],
                    !.received["CloakedVals"][m.from] = m.sid],
                    m.from)
            ELSE [s EXCEPT !.result = "NotReady", !.rejected = @ \cup {m.from}]
      [] s.msg_state = "Signature" ->
            MaybeDo([s EXCEPT !.signatures[m.from] =
                        [set |-> TRUE, ok |-> m.ok, tx |-> m.tx,
                         sid |-> s.session_id],
                     !.received["Signature"][m.from] = m.sid], m.from)
      [] s.msg_state = "SecretKeying" ->
            MaybeDo([s EXCEPT !.sess_skeys[m.from] = [set |-> TRUE, ok |-> m.ok],
                              !.received["SecretKeying"][m.from] = m.sid],
                    m.from)
      [] OTHER -> [s EXCEPT !.result = "NotReady"]

Run(s, fn, by) ==
    CASE fn = "commit" -> Commit(s, by)
      [] fn = "share_cloaked_data" -> ShareCloakedData(s, by)
      [] fn = "make_supertransaction" -> MakeSupertransaction(s, by)
      [] fn = "sign_supertransaction" -> SignSupertransaction(s, by)
      [] fn = "blame_discovery" -> BlameDiscovery(s, by)
      [] OTHER -> [s EXCEPT !.result = "Panic"]

\* start
Start(s, by) ==
    LET s0 == LogCall(s, "start", by) IN
    IF TooFew(s0) THEN [s0 EXCEPT !.result = "TooFewParticipants"]
    ELSE LET parts == Sorted(s0.participants)
             round == s0.session_round + 1
             sid == SessionIdHash(s0.session_id, round, parts)
             s1 == [s0 EXCEPT !.participants = parts,
                              !.session_round = round,
                              !.session_id = sid,
                              !.my_round_k = RoundK(sid, s0.me),
                              !.sess_pkeys = {s0.me},
                              !.sid_reused = @ \/ (sid \in s0.sid_hist),
                              !.sid_hist = @ \cup {sid}]
             s2 == SendSignedMessage(s1, "SharedKeying", TRUE, {}, {}, NoTx)
         IN AfterReceive(PrepRx(s2, "SharedKeying"))

\* commit that keeps the commitments collected before
CommitKeepingCommits(s, by) ==
    LET s0 == LogCall(s, "commit", by) IN
    IF TooFew(s0) THEN [s0 EXCEPT !.result = "TooFewParticipants"]
    ELSE LET cp == SeqToSet(s0.participants)
             mine == HashData(TRUE, cp)
             s1 == [s0 EXCEPT
                     !.commit_phase_participants = s0.participants,
                     !.matrices = [p \in Nodes |-> IF p = s0.me THEN mine ELSE NoData],
                     !.commits[s0.me] = mine]
             s2 == SendSignedMessage(s1, "Commitment", TRUE, cp, {}, NoTx)
         IN AfterReceive(PrepRx(s2, "Commitment"))

\* commit
Commit(s, by) ==
    LET s0 == LogCall(s, "commit", by) IN
    IF TooFew(s0) THEN [s0 EXCEPT !.result = "TooFewParticipants"]
    ELSE LET cp == SeqToSet(s0.participants)
             mine == HashData(TRUE, cp)
             s1 == [s0 EXCEPT
                     !.commit_phase_participants = s0.participants,
                     !.matrices = [p \in Nodes |-> IF p = s0.me THEN mine ELSE NoData],
                     !.commits = [p \in Nodes |-> IF p = s0.me THEN mine ELSE NoData]]
             s2 == SendSignedMessage(s1, "Commitment", TRUE, cp, {}, NoTx)
         IN AfterReceive(PrepRx(s2, "Commitment"))

\* share_cloaked_data
ShareCloakedData(s, by) ==
    LET s0 == LogCall(s, "share_cloaked_data", by) IN
    IF TooFew(s0) THEN [s0 EXCEPT !.result = "TooFewParticipants"]
    ELSE LET excl == Retain(s0.commit_phase_participants, SeqToSet(s0.participants))
             keys == SeqToSet(excl)
             s1 == [s0 EXCEPT
                     !.excl_participants = excl,
                     !.all_excl_cloaks = [p \in Nodes |->
                        IF p = s0.me THEN [set |-> TRUE, keys |-> keys] ELSE NoCloaks]]
             s2 == SendSignedMessage(s1, "CloakedVals", s1.matrices[s1.me].ok,
                                     s1.matrices[s1.me].cp, keys, NoTx)
         IN AfterReceive(PrepRx(s2, "CloakedVals"))

\* make_supertransaction
MakeSupertransaction(s, by) ==
    LET s0 == LogCall(s, "make_supertransaction", by) IN
    IF TooFew(s0) THEN [s0 EXCEPT !.result = "TooFewParticipants"]
    ELSE IF HadDropouts(s0) THEN Start(s0, "make_supertransaction")
    ELSE LET cps == Sorted(s0.commit_phase_participants)
             sc == [s0 EXCEPT !.commit_phase_participants = cps]
             tx == [sid |-> s0.session_id,
                    ins |-> SeqToSet(cps),
                    outs |-> {p \in SeqToSet(s0.participants) : ContribGood(sc, p)}]
             s1 == [sc EXCEPT
                     !.trans = tx,
                     !.signed = @ \cup {[k |-> s0.my_round_k, tx |-> tx]},
                     !.signatures = [p \in Nodes |->
                        IF p = s0.me
                        THEN [set |-> TRUE, ok |-> TRUE, tx |-> tx,
                              sid |-> s0.session_id]
                        ELSE NoSig]]
             s2 == SendSignedMessage(s1, "Signature", TRUE, {}, {}, tx)
         IN AfterReceive(PrepRx(s2, "Signature"))

\* sign_supertransaction
SignSupertransaction(s, by) ==
    LET s0 == LogCall(s, "sign_supertransaction", by) IN
    IF ~AllSignaturesPresent(s0) THEN Start(s0, "sign_supertransaction")
    ELSE IF ValidateTransaction(s0)
    THEN LET leader == LeaderId(s0.participants,
                                [p \in SeqToSet(s0.participants) |-> NodeDigest(p)],
                                NodeSalt)
         IN [ResetState(s0) EXCEPT !.participants = Sorted(s0.participants),
                                   !.is_leader = (s0.me = leader),
                                   !.result = "Ready"]
    ELSE LET s1 == [s0 EXCEPT !.sess_skeys = [p \in Nodes |->
                        IF p = s0.me THEN [set |-> TRUE, ok |-> TRUE] ELSE NoKey]]
             s2 == SendSignedMessage(s1, "SecretKeying", TRUE, {}, {}, NoTx)
         IN AfterReceive(PrepRx(s2, "SecretKeying"))

\* blame_discovery that excludes nobody
BlameDiscoveryBlamingNobody(s, by) ==
    Start(LogCall(s, "blame_discovery", by), "blame_discovery")

\* blame_discovery that reconstructs whoever answered
BlameDiscoveryDespiteDropouts(s, by) ==
    LET s0 == LogCall(s, "blame_discovery", by) IN
    Start([s0 EXCEPT !.participants = Retain(@, DcReconstruct(s0))],
          "blame_discovery")

\* blame_discovery that excludes every peer
BlameDiscoveryBlamingAllPeers(s, by) ==
    LET s0 == LogCall(s, "blame_discovery", by) IN
    IF HadDropouts(s0) THEN Start(s0, "blame_discovery")
    ELSE Start([s0 EXCEPT !.participants = <<s0.me>>], "blame_discovery")

\* blame_discovery
BlameDiscovery(s, by) ==
    LET s0 == LogCall(s, "blame_discovery", by) IN
    IF HadDropouts(s0) THEN Start(s0, "blame_discovery")
    ELSE Start([s0 EXCEPT !.participants = Retain(@, DcReconstruct(s0))],
               "blame_discovery")

\* handle_timer
HandleTimer(s) ==
    Run([s EXCEPT !.timer = FALSE, !.msg_state = "None"],
        TimerRoutine(s.msg_state), "handle_timer")

\* on_message_received
OnMessageReceived(s, m) ==
    HandleEnqueuedMessages([s EXCEPT !.msg_queue = <<m>> \o @])

\* send_pool_join
SendPoolJoin(s) ==
    [LogCall(s, "send_pool_join", "") EXCEPT
        !.all_txins = @ \cup {s.me}, !.joined = s.facilitator]

\* ensure_facilitator
EnsureFacilitator(s, from) == from = s.facilitator

\* a cancel after which the instance counts as finished
OnPoolCanceledFinishing(s, from) ==
    IF ~EnsureFacilitator(s, from) THEN s ELSE ResetState(s)

\* on_pool_notification, PoolNotification::Canceled
OnPoolCanceled(s, from) ==
    IF ~EnsureFacilitator(s, from) THEN s
    ELSE LET changed == s.future_facilitator # NoFacilitator
             s1 == ResetState(s)
         IN IF changed THEN SendPoolJoin(s1)
            ELSE [s1 EXCEPT !.poll_state = "PoolRestart"]

\* every announced member, whatever its ownership signature
AllMembers(list, bad) == list

\* the announced members whose ownership signature verifies, in the order
\* of the announce
RECURSIVE ValidMembers(_, _)
ValidMembers(list, bad) ==
    IF list = <<>> THEN <<>>
    ELSE IF Head(list) \in bad THEN ValidMembers(Tail(list), bad)
    ELSE <<Head(list)>> \o ValidMembers(Tail(list), bad)

\* an announce that takes over the session id before it looks for self
OnPoolStartedAssigningFirst(s, from, info) ==
    IF ~EnsureFacilitator(s, from) THEN s
    ELSE IF s.me \notin SeqToSet(info.list)
    THEN [s EXCEPT !.session_id = info.session_id,
                   !.result = "NotInParticipantList"]
    ELSE LET valid == ValidMembers(info.list, info.bad)
             s1 == [s EXCEPT
                     !.session_id = info.session_id,
                     !.participants = Dedup(Sorted(valid)),
                     !.all_txins = @ \cup SeqToSet(valid),
                     !.poll_state = "PoolFormed"]
         IN Start(s1, "on_pool_notification")

\* on_pool_notification, PoolNotification::Started: info.list are the
\* announced participants, info.bad those whose ownership signature fails
OnPoolStarted(s, from, info) ==
    IF ~EnsureFacilitator(s, from) THEN s
    ELSE IF s.me \notin SeqToSet(info.list)
    THEN [s EXCEPT !.result = "NotInParticipantList"]
    ELSE LET valid == ValidMembers(info.list, info.bad)
             s1 == [s EXCEPT
                     !.session_id = info.session_id,
                     !.participants = Dedup(Sorted(valid)),
                     !.all_txins = @ \cup SeqToSet(valid),
                     !.poll_state = "PoolFormed"]
         IN Start(s1, "on_pool_notification")

\* change_facilitator
ChangeFacilitatorOp(s, f) ==
    LET s1 == [s EXCEPT !.facilitator = f, !.future_facilitator = NoFacilitator]
    IN IF s.poll_state \in {"PoolRestart", "PoolWait"} THEN SendPoolJoin(s1) ELSE s1


\* ------------------------------------------------------------- environment
\* the participant lists a facilitator announces: the whole pool, the pool
\* without node 4, a pool of two, a pool without node 1 and a list with a
\* repeated member
FullList == <<4, 3, 2, 1>>
AnnounceLists == {FullList, <<3, 2, 1>>, <<2, 1>>, <<4, 3, 2>>, <<1, 2, 1, 3>>}

\* the lists announced where pools form again and again: pools of three
PoolLists == {<<3, 2, 1>>, <<2, 1>>, <<4, 3, 2>>, <<1, 2, 1, 3>>}

Adversary == Nodes \ honest

Flags(p) == IF p \in faulty THEN BOOLEAN ELSE {TRUE}

KindIndex(k) == CHOOSE i \in 1..Len(Kinds) : Kinds[i] = k

\* the byzantine peers still send payloads of kind k
Speaks(k) == KindIndex(k) <= KindIndex(stops)

\* the payloads a byzantine peer p can address to n
AdvPayloads(n, p) ==
    LET cur == sb[n].session_id
        excl == SeqToSet(sb[n].excl_participants)
        cloaks == IF p \in faulty THEN {excl, {}, Nodes \ {n, p}} ELSE {excl}
        all == {Msg(p, StaleSid, "Signature", TRUE, WildCp, {}, NoTx)}
            \cup {Msg(p, cur, "SharedKeying", TRUE, WildCp, {}, NoTx)}
            \cup {Msg(p, cur, "Commitment", ok, WildCp, {}, NoTx) : ok \in Flags(p)}
            \cup {Msg(p, cur, "CloakedVals", ok, WildCp, c, NoTx) :
                        ok \in Flags(p), c \in cloaks}
            \cup {Msg(p, cur, "Signature", TRUE, WildCp, {}, WildTx)}
            \cup {Msg(p, cur, "SecretKeying", TRUE, WildCp, {}, NoTx)}
    IN  {m \in all : Speaks(m.kind)}

\* the envelopes the last event of an instance put on the wire for the
\* honest receivers
Wire(s) ==
    {[to |-> d, msg |-> Msg(s.me, s.sent[i].sid, s.sent[i].kind, s.sent[i].ok,
                            s.sent[i].cp, s.sent[i].cloaks, s.sent[i].tx)] :
        i \in 1..Len(s.sent), d \in honest}

Live(n) == n \in honest /\ sb[n].result \notin Errors \cup {"Ready"}

Install(n, s, netnow) ==
    /\ sb' = [sb EXCEPT ![n] = s]
    /\ net' = netnow \cup {w \in Wire(s) :
                    \E i \in 1..Len(s.sent) :
                        /\ w.to \in s.sent[i].to
                        /\ w.msg.kind = s.sent[i].kind /\ w.msg.sid = s.sent[i].sid}

\* no cloaked exchange
NoMix == [cpp |-> <<>>, sid |-> 0, secrets |-> <<>>, utxos |-> <<>>,
          scalars |-> <<>>, msgs |-> <<>>, total |-> 0]

\* no construction
NoOwn == [txins |-> <<>>, txouts |-> <<>>, fee |-> 0, build |-> "", state |-> "none",
          join_sent |-> FALSE, matrix |-> <<>>]

\* no leader election
NoLead == [digest |-> <<>>, salt |-> <<>>, participants |-> <<>>, leader |-> 0]

InitAll(h, f, m, last) ==
    /\ sb = [n \in Nodes |-> InitSb(n)]
    /\ net = {}
    /\ honest = h
    /\ faulty = f
    /\ mistimed = m
    /\ announces = 0
    /\ stops = last
    /\ lead = NoLead
    /\ dc = NoMix
    /\ own = NoOwn

\* byzantine peers that never fall silent for good
InitWith(h, f, m) == InitAll(h, f, m, "SecretKeying")

\* a PoolNotification::Started of facilitator `from` reaches n
Announce(n, from, sid, list, bad) ==
    Install(n, OnPoolStarted(Begin(sb[n], "announce"), from,
                [session_id |-> sid, list |-> list, bad |-> bad]), net)

\* the pool is announced to the waiting instance
PoolFormed(n) ==
    /\ Live(n)
    /\ sb[n].poll_state = "PoolWait"
    /\ announces = 0
    /\ \E list \in AnnounceLists, bad \in {{}} \cup {{p} : p \in faulty} :
          Announce(n, sb[n].facilitator, AnnouncedSid(1), list, bad)
    /\ announces' = 1
    /\ UNCHANGED <<honest, faulty, mistimed, stops, lead, dc, own>>

\* the phase timer of n expires
Timer(n) ==
    /\ Live(n)
    /\ sb[n].timer
    /\ Install(n, HandleTimer(Begin(sb[n], "timer")), net)
    /\ UNCHANGED <<honest, faulty, mistimed, announces, stops, lead, dc, own>>

\* a payload of a byzantine peer reaches n
DeliverAdv(n) ==
    /\ Live(n)
    /\ \E p \in Adversary \ {n} : \E m \in AdvPayloads(n, p) :
          LET s == OnMessageReceived(Begin(sb[n], "message"), m) IN
          /\ Len(s.msg_queue) <= MaxQueue
          /\ (m \in SeqToSet(s.msg_queue) => p \in mistimed)
          /\ Install(n, s, net)
    /\ UNCHANGED <<honest, faulty, mistimed, announces, stops, lead, dc, own>>

\* a PoolNotification::Started reaches n at any time; its session id is
\* whatever the sender put into it
PoolAnnounce(n) ==
    /\ Live(n)
    /\ announces < MaxAnnounce
    /\ \E from \in Facilitators, list \in PoolLists, k \in 1..MaxAnnounce :
          Announce(n, from, AnnouncedSid(k), list, {})
    /\ announces' = announces + 1
    /\ UNCHANGED <<honest, faulty, mistimed, stops, lead, dc, own>>

\* a PoolNotification::Canceled reaches n
PoolCanceled(n) ==
    /\ Live(n)
    /\ \E from \in Facilitators :
          Install(n, OnPoolCanceled(Begin(sb[n], "cancel"), from), net)
    /\ UNCHANGED <<honest, faulty, mistimed, announces, stops, lead, dc, own>>

\* the wallet calls change_facilitator
ChangeFacilitator(n) ==
    /\ Live(n)
    /\ \E f \in Facilitators :
          Install(n, ChangeFacilitatorOp(Begin(sb[n], "facilitator"), f), net)
    /\ UNCHANGED <<honest, faulty, mistimed, announces, stops, lead, dc, own>>

\* the pool of all four is announced to the waiting instance n
PoolFormedNet(n) ==
    /\ Live(n)
    /\ sb[n].poll_state = "PoolWait"
    /\ Announce(n, sb[n].facilitator, AnnouncedSid(1), FullList, {})
    /\ UNCHANGED <<honest, faulty, mistimed, announces, stops, lead, dc, own>>

NothingInFlight(n) == \A w \in net : w.to # n

\* the instance that sent x to its receiver had sent it y before
SentBefore(y, x) ==
    /\ y.to = x.to
    /\ y.msg.from = x.msg.from
    /\ \/ Len(y.msg.sid.chain) < Len(x.msg.sid.chain)
       \/ /\ Len(y.msg.sid.chain) = Len(x.msg.sid.chain)
          /\ KindIndex(y.msg.kind) < KindIndex(x.msg.kind)

\* no instance has noticed a dropout yet
Calm ==
    \A h \in honest :
        sb[h].session_round <= 1 /\ sb[h].excl_participants = <<>>

\* x is the next payload in flight, counting by receiver, then sender
Foremost(x) ==
    \A y \in net :
        \/ x.to < y.to
        \/ x.to = y.to /\ x.msg.from <= y.msg.from

\* deliveries in order: the payloads of an instance arrive in the order it
\* sent them, and as long as no instance has noticed a dropout one payload
\* is in turn at a time
InOrder(x) ==
    /\ ~\E y \in net : SentBefore(y, x)
    /\ Calm => Foremost(x)

\* what can reach n next where instances exchange payloads: a payload of an
\* honest instance that is in flight, or, once nothing is in flight, a
\* payload of a byzantine peer that n can act on at once
Arrivals(n, inorder) ==
    {[w |-> {w}, msg |-> w.msg, timely |-> FALSE] :
        w \in {x \in net : x.to = n /\ (inorder => InOrder(x))}}
    \cup IF NothingInFlight(n) /\ (inorder /\ Calm => net = {})
         THEN {[w |-> {}, msg |-> m, timely |-> TRUE] :
                    m \in UNION {AdvPayloads(n, p) : p \in Adversary \ {n}}}
         ELSE {}

\* a payload of an honest instance or of a byzantine peer reaches n, whose
\* queue holds at most maxq payloads afterwards; inorder: the payloads of
\* an instance arrive in the order it sent them
DeliverWithin(n, maxq, inorder) ==
    /\ Live(n)
    /\ \E a \in Arrivals(n, inorder) :
          LET s == OnMessageReceived(Begin(sb[n], "message"), a.msg) IN
          /\ Len(s.msg_queue) <= maxq
          /\ (a.timely => a.msg \notin SeqToSet(s.msg_queue))
          /\ Install(n, s, net \ a.w)
    /\ UNCHANGED <<honest, faulty, mistimed, announces, stops, lead, dc, own>>

DeliverNet(n) == DeliverWithin(n, MaxQueue, FALSE)

Init == InitWith({1}, {4}, {2})

Next ==
    \E n \in Nodes :
        \/ PoolFormed(n)
        \/ Timer(n)
        \/ DeliverAdv(n)

Spec == Init /\ [][Next]_vars

\* two instances that exchange their payloads and two peers that answer
\* some waits and not others.  The payloads of the instances are delivered
\* before anything else happens at the receiver, the peers answer the
\* SharedKeying and Commitment waits in time, and a run is followed until
\* an instance ends
InitNet == InitWith({1, 2}, {}, {})

MaxRoundNet == 1

Running(n) ==
    /\ \A h \in honest : Live(h)
    /\ sb[n].session_round <= MaxRoundNet

PoolFormedHonest(n) == Running(n) /\ PoolFormedNet(n)

TimerNet(n) ==
    /\ Running(n)
    /\ NothingInFlight(n)
    /\ sb[n].msg_state \notin {"SharedKeying", "Commitment"}
    /\ Timer(n)

DeliverHonest(n) == Running(n) /\ DeliverNet(n)

NextNet ==
    \E n \in Nodes :
        \/ PoolFormedHonest(n)
        \/ TimerNet(n)
        \/ DeliverHonest(n)

SpecNet == InitNet /\ [][NextNet]_vars

\* three instances form a pool of three and exchange their payloads in any
\* order; every payload is delivered before a timer expires, so no timer
\* expires.  An instance is at most one phase behind its peers, so at most
\* one payload of each peer rests in its queue
InitThree == InitWith({1, 2, 3}, {}, {})

ThreeList == <<3, 2, 1>>

PoolFormedThree(n) ==
    /\ Live(n)
    /\ sb[n].poll_state = "PoolWait"
    /\ Announce(n, sb[n].facilitator, AnnouncedSid(1), ThreeList, {})
    /\ UNCHANGED <<honest, faulty, mistimed, announces, stops, lead, dc, own>>

DeliverThree(n) == n \in honest /\ DeliverWithin(n, Len(ThreeList) - 1, FALSE)

NextThree ==
    \E n \in Nodes :
        \/ PoolFormedThree(n)
        \/ DeliverThree(n)

SpecThree == InitThree /\ [][NextThree]_vars

\* three instances and a peer that falls silent for good after its
\* SharedKeying or after its Commitment.  What the peer still sends reaches
\* every instance in time, the payloads of the instances reach each other
\* in any order, and a timer expires only when nothing but the silent peer
\* is awaited; the payloads of an instance arrive in the order it sent them
InitDrop == \E last \in {"SharedKeying", "Commitment"} : InitAll({1, 2, 3}, {}, {}, last)

PoolFormedDrop(n) == n \in honest /\ PoolFormedNet(n)

TimerDue(n) ==
    /\ Live(n)
    /\ sb[n].timer
    /\ sb[n].pending_participants \cap honest = {}
    /\ (sb[n].msg_state \in KindSet /\ Speaks(sb[n].msg_state))
            => sb[n].pending_participants = {}

TimerDrop(n) == TimerDue(n) /\ Timer(n)

DeliverDrop(n) == n \in honest /\ DeliverWithin(n, Cardinality(honest) - 1, TRUE)

NextDrop ==
    \E n \in Nodes :
        \/ PoolFormedDrop(n)
        \/ TimerDrop(n)
        \/ DeliverDrop(n)

SpecDrop == InitDrop /\ [][NextDrop]_vars

\* one instance, pool notifications at any time, a peer that may send
\* malformed content
InitPool == InitWith({1}, {3}, {})

NextPool ==
    \E n \in Nodes :
        \/ PoolAnnounce(n)
        \/ PoolCanceled(n)
        \/ ChangeFacilitator(n)
        \/ Timer(n)
        \/ DeliverAdv(n)

SpecPool == InitPool /\ [][NextPool]_vars

\* leader elections among the smallest pool, for every value the hashes of
\* the participants and of their list can take; the participants are held
\* in any order, as the order in which they answered
LeaderPool == 1..MIN_PARTICIPANTS

LeaderLists ==
    {q \in [1..Cardinality(LeaderPool) -> LeaderPool] :
        \A i \in DOMAIN q : \A j \in DOMAIN q : i # j => q[i] # q[j]}

InitLeader ==
    /\ sb = [n \in Nodes |-> InitSb(n)]
    /\ net = {}
    /\ honest = {}
    /\ faulty = {}
    /\ mistimed = {}
    /\ announces = 0
    /\ stops = "SecretKeying"
    /\ dc = NoMix
    /\ own = NoOwn
    /\ \E d \in [LeaderPool -> ByteVecs], s \in ByteVecs :
          lead = [digest |-> d, salt |-> s, participants |-> <<>>, leader |-> 0]

\* an instance that holds the participants as list runs leader_id
ElectLeader ==
    /\ \E list \in LeaderLists :
          lead' = [lead EXCEPT !.participants = list,
                               !.leader = LeaderId(list, lead.digest, lead.salt)]
    /\ UNCHANGED <<sb, net, honest, faulty, mistimed, announces, stops, dc, own>>

NextLeader == ElectLeader

SpecLeader == InitLeader /\ [][NextLeader]_vars

\* ------------------------------------------------------------ cloaked data
\* the chunks of a serialized UTXO and the order of the scalar field
NChunks == 1
FieldOrder == 3
Scalars == 0..(FieldOrder - 1)

\* the pairs of members of S
Pairs(S) == {x \in SUBSET S : Cardinality(x) = 2}

\* dc_keys: k_cloak[q] = H(shared secret of self and q, session id); the
\* shared secret is the same on both sides
DcKeys(p, cpp, secrets, sid) ==
    [q \in SeqToSet(cpp) \ {p} |-> [secret |-> secrets[{p, q}], sid |-> sid]]

\* the stream byte a cloak key gives for cell (row, col) of a sheet, and its
\* scalar
Stream(k, sheet_id, row, col) ==
    (k.secret + k.sid + sheet_id + row + col) % (MaxByte + 1)
StreamScalar(k) == (1 + k.secret + k.sid) % FieldOrder

RECURSIVE XorSeq(_)
XorSeq(q) == IF q = <<>> THEN 0 ELSE Xor(Head(q), XorSeq(Tail(q)))

RECURSIVE SumSeq(_)
SumSeq(q) == IF q = <<>> THEN 0 ELSE (Head(q) + SumSeq(Tail(q))) % FieldOrder

\* the sign of the cloak of p toward q: +1 if p < q, else -1
Sign(p, q) == IF p < q THEN 1 ELSE FieldOrder - 1

\* dc_encode_sheet: the chunks of msg in the row of my_id, zero in the other
\* rows, every cell cloaked toward every other participant
DcEncodeSheet(sheet_id, msg, participants, my_id, k_cloaks) ==
    [row \in 1..Len(participants) |-> [col \in 1..NChunks |->
        Xor(IF participants[row] = my_id THEN msg[col] ELSE 0,
            XorSeq([i \in 1..Len(participants) |->
                IF participants[i] = my_id THEN 0
                ELSE Stream(k_cloaks[participants[i]], sheet_id, row, col)]))]]

\* split_message of the empty message: zero fill
NullMsg == [col \in 1..NChunks |-> 0]

\* the sheets of a matrix: one per UTXO, and never fewer than MAX_UTXOS
SheetIds(my_utxos) ==
    1..(IF Len(my_utxos) > MAX_UTXOS THEN Len(my_utxos) ELSE MAX_UTXOS)

\* an encoding that always uses the first row for the own message
EncodeMatrixFirstRow(participants, my_utxos, my_id, k_cloaks) ==
    [sheet_id \in SheetIds(my_utxos) |->
        LET cloaks == DcEncodeSheet(sheet_id, NullMsg, participants, my_id, k_cloaks)
            msg == IF sheet_id <= Len(my_utxos) THEN my_utxos[sheet_id] ELSE NullMsg
        IN  [row \in 1..Len(participants) |-> [col \in 1..NChunks |->
                Xor(cloaks[row][col], IF row = 1 THEN msg[col] ELSE 0)]]]

\* encode_matrix: a sheet for each serialized UTXO, then sheets of zero
\* fill up to MAX_UTXOS, every sheet cloaked
EncodeMatrix(participants, my_utxos, my_id, k_cloaks) ==
    [sheet_id \in SheetIds(my_utxos) |->
        DcEncodeSheet(sheet_id,
                      IF sheet_id <= Len(my_utxos) THEN my_utxos[sheet_id] ELSE NullMsg,
                      participants, my_id, k_cloaks)]

\* dc_encode_scalar
DcEncodeScalar(x, participants, my_id, k_cloaks) ==
    (x + SumSeq([i \in 1..Len(participants) |->
            IF participants[i] = my_id THEN 0
            ELSE (Sign(my_id, participants[i])
                    * StreamScalar(k_cloaks[participants[i]])) % FieldOrder]))
        % FieldOrder

\* dc_decode without excluded participants: the cell-wise sum of the
\* matrices of the participants
DcDecode(participants, matrices) ==
    [sheet_id \in 1..MAX_UTXOS |->
        [row \in 1..Len(participants) |-> [col \in 1..NChunks |->
            XorSeq([i \in 1..Len(participants) |->
                        matrices[participants[i]][sheet_id][row][col]])]]]

\* dc_scalar_open without excluded participants
DcScalarOpen(participants, cloaked) ==
    SumSeq([i \in 1..Len(participants) |-> cloaked[participants[i]]])

\* the pools that exchange cloaked data, each held in ascending and in
\* descending order
MixLists == {<<1, 2, 3>>, <<3, 2, 1>>, <<1, 2, 3, 4>>, <<4, 3, 2, 1>>}

InitMix ==
    /\ sb = [n \in Nodes |-> InitSb(n)]
    /\ net = {}
    /\ honest = {}
    /\ faulty = {}
    /\ mistimed = {}
    /\ announces = 0
    /\ stops = "SecretKeying"
    /\ lead = NoLead
    /\ own = NoOwn
    /\ \E cpp \in MixLists, sid \in Bytes :
       \E secrets \in [Pairs(SeqToSet(cpp)) -> Bytes] :
          dc = [NoMix EXCEPT !.cpp = cpp, !.sid = sid, !.secrets = secrets]

\* the cloak keys of every member of the exchange
KCloaks == [p \in SeqToSet(dc.cpp) |-> DcKeys(p, dc.cpp, dc.secrets, dc.sid)]

\* commit at every member of the list cpp and make_supertransaction at one
\* of them, the matrices: every member encodes its one UTXO with the list
\* cpp and the session id, the matrices are exchanged and decoded
MixMatrices ==
    /\ dc.utxos = <<>> /\ dc.scalars = <<>>
    /\ \E utxos \in [SeqToSet(dc.cpp) -> [1..NChunks -> Bytes]] :
          LET matrices == [p \in SeqToSet(dc.cpp) |->
                              EncodeMatrix(dc.cpp, <<utxos[p]>>, p, KCloaks[p])]
          IN dc' = [dc EXCEPT !.utxos = utxos,
                              !.msgs = DcDecode(dc.cpp, matrices)]
    /\ UNCHANGED <<sb, net, honest, faulty, mistimed, announces, stops, lead, own>>

\* the same for the scalars (gamma_adj, fee)
MixScalars ==
    /\ dc.utxos = <<>> /\ dc.scalars = <<>>
    /\ \E scalars \in [SeqToSet(dc.cpp) -> Scalars] :
          LET cloaked == [p \in SeqToSet(dc.cpp) |->
                              DcEncodeScalar(scalars[p], dc.cpp, p, KCloaks[p])]
          IN dc' = [dc EXCEPT !.scalars = scalars,
                              !.total = DcScalarOpen(dc.cpp, cloaked)]
    /\ UNCHANGED <<sb, net, honest, faulty, mistimed, announces, stops, lead, own>>

NextMix == MixMatrices \/ MixScalars

SpecMix == InitMix /\ [][NextMix]_vars

\* ---------------------------------------------------------- construction
\* the width of the integer type of the amounts and of the fee (i64 in the
\* code), and its two's complement range
AmountBits == 3
AmountMod == 2 ^ AmountBits
AmountMax == (2 ^ (AmountBits - 1)) - 1
AmountMin == 0 - (2 ^ (AmountBits - 1))

\* the sum left in the variable by an addition that overflowed and wrapped
Wrap(x) == ((x - AmountMin) % AmountMod) + AmountMin

\* overflow checks of the build: with them an addition that overflows
\* panics, without them it wraps
Builds == {"checked", "wrapping"}

\* stands for the panic of an addition
Overflowed == AmountMod

\* "a += b" on the integer type of the amounts
Add(a, b, build) ==
    IF a = Overflowed THEN Overflowed
    ELSE IF a + b >= AmountMin /\ a + b <= AmountMax THEN a + b
    ELSE IF build = "checked" THEN Overflowed
    ELSE Wrap(a + b)

\* new: "amt_in += amount" over the inputs, "amt_out += rec.amount" over
\* the proposed outputs
RECURSIVE SumAmounts(_, _, _)
SumAmounts(q, acc, build) ==
    IF q = <<>> THEN acc
    ELSE SumAmounts(Tail(q), Add(acc, Head(q), build), build)

\* the sum of the amounts as integers
RECURSIVE Total(_)
Total(q) == IF q = <<>> THEN 0 ELSE Head(q) + Total(Tail(q))

\* new: the checks before the instance is built; FALSE stands for a panic
NewChecks(txins, txouts, fee, build) ==
    LET amt_in == SumAmounts(txins, 0, build)
        amt_out == SumAmounts(txouts, 0, build)
        due == Add(amt_out, fee, build)
    IN  /\ Len(txouts) <= MAX_UTXOS
        /\ amt_in # Overflowed
        /\ amt_out # Overflowed
        /\ ~(fee < 0)
        /\ due # Overflowed
        /\ amt_in = due

\* serialize_utxo and split_message: the chunks of a fresh UTXO, never all
\* zero
SerializeUtxo(amount) == [col \in 1..NChunks |-> 1 + (amount % MaxByte)]

\* the commit-phase participants and the cloak keys of the instance whose
\* construction is followed
OwnList == <<1, 2, 3>>
OwnKCloaks == DcKeys(1, OwnList, [x \in Pairs(SeqToSet(OwnList)) |-> 1], 0)

\* commit: the fresh UTXOs, the size of a serialized UTXO taken from
\* my_utxos[0], the zero balance assertion on the commitments, the matrix
CommitOwn(o) ==
    LET my_utxos == [i \in 1..Len(o.txouts) |-> SerializeUtxo(o.txouts[i])] IN
    IF my_utxos = <<>> THEN [o EXCEPT !.state = "commit_panic"]
    ELSE IF Total(o.txins) - Total(o.txouts) # o.fee
    THEN [o EXCEPT !.state = "commit_panic"]
    ELSE [o EXCEPT !.state = "Commitment",
                   !.matrix = EncodeMatrix(OwnList, my_utxos, 1, OwnKCloaks)]

\* the amounts of the inputs and of the proposed outputs, and the fees
InAmounts == 0..AmountMax
OutAmounts == {1, AmountMax}
Fees == {0 - 1, 0, 1}

\* the lists of at most n members of S
SeqsUpTo(S, n) == UNION {[1..k -> S] : k \in 0..n}

\* the arguments of new: one input, up to MAX_UTXOS + 1 proposed outputs
InitNew ==
    /\ sb = [n \in Nodes |-> InitSb(n)]
    /\ net = {}
    /\ honest = {}
    /\ faulty = {}
    /\ mistimed = {}
    /\ announces = 0
    /\ stops = "SecretKeying"
    /\ lead = NoLead
    /\ dc = NoMix
    /\ \E a \in InAmounts, outs \in SeqsUpTo(OutAmounts, MAX_UTXOS + 1),
          fee \in Fees, build \in Builds :
          own = [NoOwn EXCEPT !.txins = <<a>>, !.txouts = outs, !.fee = fee,
                              !.build = build, !.state = "args"]

\* Snowball::new: the checks, then the instance and its PoolJoin
Construct ==
    /\ own.state = "args"
    /\ own' = IF NewChecks(own.txins, own.txouts, own.fee, own.build)
              THEN [own EXCEPT !.state = "PoolWait", !.join_sent = TRUE]
              ELSE [own EXCEPT !.state = "panic"]
    /\ UNCHANGED <<sb, net, honest, faulty, mistimed, announces, stops, lead, dc>>

\* the pool formed, the session keys were exchanged and commit() runs
CommitStep ==
    /\ own.state = "PoolWait"
    /\ own' = CommitOwn(own)
    /\ UNCHANGED <<sb, net, honest, faulty, mistimed, announces, stops, lead, dc>>

NextNew == Construct \/ CommitStep

SpecNew == InitNew /\ [][NextNew]_vars

\* ---------------------------------------------------------------- envelopes
\* what can be wrong with an inbound buffer: nothing, the declared source
\* is not the transport-level sender, the destination is another
\* participant, or it does not decode
EnvelopeFaults == {"none", "source", "destination", "decode"}

\* a node other than p
Other(p) == CHOOSE q \in Nodes : q # p

\* a node other than n and p
Third(n, p) == CHOOSE q \in Nodes : q # n /\ q # p

\* SnowballEvent::MessageReceived(from, data): the payload m of peer p for
\* instance n in a buffer with the given fault
Envelope(n, p, m, fault) ==
    [from |-> IF fault = "source" THEN Third(n, p) ELSE p,
     decodes |-> fault # "decode",
     destination |-> IF fault = "destination" THEN Other(n) ELSE n,
     msg |-> m]

WellFormed(s, env) ==
    /\ env.decodes
    /\ env.msg.from = env.from
    /\ env.destination = s.me

\* "continue": the event is dropped
Dropped(s) == [s EXCEPT !.event = "dropped"]

\* poll that does not compare the declared source with the sender
PollEnvelopeTrustingSource(s, env) ==
    IF ~env.decodes THEN Dropped(s)
    ELSE IF env.destination # s.me THEN Dropped(s)
    ELSE OnMessageReceived(Begin(s, "message"), env.msg)

\* poll, SnowballEvent::MessageReceived
PollEnvelope(s, env) ==
    IF ~env.decodes THEN Dropped(s)
    ELSE IF env.msg.from # env.from THEN Dropped(s)
    ELSE IF env.destination # s.me THEN Dropped(s)
    ELSE OnMessageReceived(Begin(s, "message"), env.msg)

\* the buffers that can reach n from the peers: every payload, of the
\* phase n is in or of any other, in a sound envelope and in an envelope
\* with each fault
Envelopes(n) ==
    UNION {{Envelope(n, p, m, fault) : m \in AdvPayloads(n, p),
                                       fault \in EnvelopeFaults} :
                p \in Adversary \ {n}}

\* a buffer reaches n
DeliverEnvelope(n) ==
    /\ Live(n)
    /\ \E env \in Envelopes(n) :
          LET s == PollEnvelope(sb[n], env) IN
          IF s.event = "dropped"
          THEN sb' = [sb EXCEPT ![n] = s] /\ net' = net
          ELSE /\ Len(s.msg_queue) <= MaxQueue
               /\ (env.msg \in SeqToSet(s.msg_queue) => env.msg.from \in mistimed)
               /\ Install(n, s, net)
    /\ UNCHANGED <<honest, faulty, mistimed, announces, stops, lead, dc, own>>

NextEnvelope ==
    \E n \in Nodes :
        \/ PoolFormed(n)
        \/ Timer(n)
        \/ DeliverEnvelope(n)

\* one instance and three peers whose payloads are sound and, in a sound
\* envelope, in phase; what is wrong is only the envelope
InitEnvelope == InitWith({1}, {}, {})

SpecEnvelope == InitEnvelope /\ [][NextEnvelope]_vars

\* ------------------------------------------------------------------ claims
NoRepeats(q) == \A i \in 1..Len(q) : \A j \in 1..Len(q) : i # j => q[i] # q[j]

\* C1: a peer payload is handled only if, at the moment it is examined, its
\* session id is the instance's current session id, its sender is pending
\* and its kind is the current wait state; so no peer is handled twice in
\* one wait
C1_HandledOnlyIfAcceptable ==
    \A n \in honest :
        /\ \A i \in 1..Len(sb[n].handled) :
              LET h == sb[n].handled[i] IN
              /\ h.sid = h.cur_sid
              /\ h.was_pending
              /\ h.state \in KindSet
              /\ h.kind = h.state
        /\ NoRepeats(sb[n].answered)

\* one delivery completed a wait and the nested re-examination handled a
\* queued payload of the next phase, while a payload of a foreign session
\* stays queued
C1_Witness ==
    \E n \in honest :
        /\ Len(sb[n].handled) >= 2
        /\ sb[n].handled[1].kind # sb[n].handled[2].kind
        /\ sb[n].result = "NotReady"

NextKind(st) ==
    CASE st = "SharedKeying" -> "Commitment"
      [] st = "Commitment" -> "CloakedVals"
      [] st = "CloakedVals" -> "Signature"
      [] st = "Signature" -> "SecretKeying"
      [] OTHER -> "none"

\* b is a wait that may follow the wait a
WaitStep(a, b) ==
    \/ b.st = NextKind(a.st) /\ b.round = a.round
    \/ b.st = "SharedKeying" /\ b.round = a.round + 1

\* the wait the instance was in before an event, then the waits the event
\* entered, in order
WaitTrail(pre, post) ==
    (IF pre.msg_state # "None"
     THEN <<[st |-> pre.msg_state, round |-> pre.session_round]>> ELSE <<>>)
    \o [i \in 1..Len(post.waits) |->
            [st |-> post.waits[i].st, round |-> post.waits[i].round]]

SentNothingAt(s, i) == \A j \in 1..Len(s.sent) : s.sent[j].at # i

\* call number i of the event of s went on to start(), which either ended
\* the session for want of participants or opened the SharedKeying wait of
\* the next round with the participants of the call
RestartedAt(s, i) ==
    LET c == s.calls[i] IN
    /\ SentNothingAt(s, i)
    /\ IF c.n < MIN_PARTICIPANTS
       THEN /\ s.result = "TooFewParticipants"
            /\ \A j \in 1..Len(s.waits) : s.waits[j].at < i
       ELSE /\ i < Len(s.calls)
            /\ s.calls[i + 1].fn = "start"
            /\ s.calls[i + 1].parts = c.parts
            /\ \E j \in 1..Len(s.waits) :
                  /\ s.waits[j].at = i + 1
                  /\ s.waits[j].st = "SharedKeying"
                  /\ s.waits[j].round = c.round + 1
                  /\ s.waits[j].entry = c.parts

\* C3: the super-transaction is built and the Signature wait entered only
\* when the participants are exactly the commit-phase participants; when
\* the sets differ at the end of the CloakedVals wait the round is given up
\* and start() runs with the participants that are left
C3_SupertransactionOnlyWithoutDropouts ==
    \A n \in honest :
        LET s == sb[n] IN
        /\ \A i \in 1..Len(s.waits) :
              s.waits[i].st = "Signature" => s.waits[i].entry = s.waits[i].cp
        /\ \A i \in 1..Len(s.sent) :
              s.sent[i].kind = "Signature" =>
                /\ s.calls[s.sent[i].at].fn = "make_supertransaction"
                /\ s.calls[s.sent[i].at].parts = s.calls[s.sent[i].at].cp
                /\ s.sent[i].tx.ins = s.calls[s.sent[i].at].cp
        /\ \A i \in 1..Len(s.calls) :
              (s.calls[i].fn = "make_supertransaction"
                    /\ s.calls[i].parts # s.calls[i].cp)
                => RestartedAt(s, i)

\* the CloakedVals wait ended with a participant missing and three left:
\* the second round was started with those three
C3_Witness ==
    \E n \in honest : \E i \in 1..Len(sb[n].calls) :
        /\ sb[n].calls[i].fn = "make_supertransaction"
        /\ sb[n].calls[i].parts # sb[n].calls[i].cp
        /\ sb[n].calls[i].n = 3
        /\ sb[n].msg_state = "SharedKeying"
        /\ sb[n].session_round = 2

\* C4: a transaction is emitted only with a Signature payload of the
\* current round from every other commit-phase participant and a
\* transaction that validates; when a commit-phase signature is missing at
\* the end of the Signature wait nothing is emitted and start() runs
C4_EmitOnlySignedAndValid ==
    \A n \in honest :
        LET s == sb[n] IN
        /\ s.result = "Ready" =>
              /\ s.poll_state = "PoolFinished"
              /\ s.calls[Len(s.calls)].fn = "sign_supertransaction"
              /\ \A p \in SeqToSet(s.commit_phase_participants) \ {s.me} :
                    /\ s.signatures[p].set
                    /\ s.signatures[p].sid = s.session_id
                    /\ s.signatures[p].ok
                    /\ s.signatures[p].tx \in {s.trans, WildTx}
              /\ s.trans.sid = s.session_id
              /\ s.trans.ins = SeqToSet(s.commit_phase_participants)
              /\ s.trans.outs = s.trans.ins
        /\ \A i \in 1..Len(s.calls) :
              (s.calls[i].fn = "sign_supertransaction"
                    /\ ~(s.calls[i].cp \subseteq s.calls[i].parts))
                => s.result # "Ready" /\ RestartedAt(s, i)

\* a transaction was emitted by a pool of four
C4_Witness ==
    \E n \in honest :
        /\ sb[n].result = "Ready"
        /\ Len(sb[n].commit_phase_participants) = 4

PhaseRoutines ==
    {"start", "commit", "share_cloaked_data", "make_supertransaction",
     "sign_supertransaction", "blame_discovery"}

\* C5: a phase routine reached with fewer than 3 participants (self
\* included) ends the session with TooFewParticipants and sends no payload
\* of the next phase; with 3 or more left the session goes on, so
\* TooFewParticipants is returned in no other case and every payload is
\* sent among at least 3 participants
C5_TooFewParticipants ==
    \A n \in honest :
        LET s == sb[n] IN
        /\ \A i \in 1..Len(s.calls) :
              (s.calls[i].fn \in PhaseRoutines /\ s.calls[i].n < 3) =>
                /\ s.result = "TooFewParticipants"
                /\ \A j \in 1..Len(s.sent) : s.sent[j].at < i
                /\ \A j \in 1..Len(s.waits) : s.waits[j].at < i
        /\ \A j \in 1..Len(s.sent) : Cardinality(s.sent[j].to \cup {s.me}) >= 3
        /\ s.result = "TooFewParticipants" =>
              /\ s.calls # <<>>
              /\ s.calls[Len(s.calls)].n < 3

\* the phase timer of a second round expired with one responder and the
\* session ended
C5_Witness ==
    \E n \in honest :
        /\ sb[n].result = "TooFewParticipants"
        /\ sb[n].event = "timer"
        /\ sb[n].session_round = 2
        /\ sb[n].calls[Len(sb[n].calls)].n = 2

\* the number of participants the round of session id sid started with
RoundSize(sid) == Len(sid.chain[Len(sid.chain)][2])

C9_CloakedValsChecked ==
    \A n \in honest :
        LET s == sb[n] IN
        /\ \A p \in Nodes \ {s.me} :
              s.matrices[p].set =>
                /\ s.commits[p] = HashData(s.matrices[p].ok, s.matrices[p].cp)
                /\ s.all_excl_cloaks[p].set
                /\ s.all_excl_cloaks[p].keys = SeqToSet(s.excl_participants)
        /\ s.rejected \cap s.pending_participants = {}
        /\ s.rejected \cap SeqToSet(s.participants) = {}
        /\ \A p \in s.rejected : ~s.matrices[p].set
        /\ \A i \in 1..Len(s.handled) : ~s.handled[i].was_rejected
        /\ \A i \in 1..Len(s.calls) :
              s.calls[i].fn = "make_supertransaction" =>
                s.calls[i].rejected \cap s.calls[i].parts = {}

\* four participants, the CloakedVals of one did not pass the checks: the
\* wait ended without the cheater and the three others started a round
C9_Witness ==
    \E n \in honest : \E i \in 1..Len(sb[n].calls) :
        /\ sb[n].calls[i].fn = "make_supertransaction"
        /\ sb[n].calls[i].cp = Nodes
        /\ sb[n].calls[i].rejected # {}
        /\ sb[n].calls[i].parts = Nodes \ sb[n].calls[i].rejected
        /\ sb[n].msg_state = "SharedKeying"

\* the payload m belongs to a later phase of the round s is in
LaterPhase(s, m) ==
    /\ m.sid = s.session_id
    /\ s.msg_state \in KindSet
    /\ KindIndex(m.kind) > KindIndex(s.msg_state)

CountIn(q, m) == Cardinality({i \in 1..Len(q) : q[i] = m})

CountHandled(s, m) ==
    Cardinality({i \in 1..Len(s.handled) :
        /\ s.handled[i].from = m.from
        /\ s.handled[i].kind = m.kind
        /\ s.handled[i].sid = m.sid})

PrevSid(sid) == [base |-> sid.base, chain |-> SubSeq(sid.chain, 1, Len(sid.chain) - 1)]
HashedParticipants(sid) == SeqToSet(sid.chain[Len(sid.chain)][2])

\* C7 as stated: two honest participants of the same announced pool that
\* are in the same round have the same session id
C7_SameRoundSameSid ==
    \A a \in honest : \A b \in honest :
        ( /\ sb[a].session_round >= 1
          /\ sb[a].session_round = sb[b].session_round
          /\ sb[a].session_id.base = sb[b].session_id.base )
        => sb[a].session_id = sb[b].session_id

\* what start() does give: two honest participants that start a round from
\* the same previous session id, with the same round number and the same
\* set of participants have the same session id, in whatever order each of
\* them collected the participants
C7_SameInputsSameSid ==
    \A a \in honest : \A b \in honest :
        ( /\ sb[a].session_round >= 1
          /\ sb[a].session_round = sb[b].session_round
          /\ PrevSid(sb[a].session_id) = PrevSid(sb[b].session_id)
          /\ HashedParticipants(sb[a].session_id)
                = HashedParticipants(sb[b].session_id) )
        => sb[a].session_id = sb[b].session_id

\* C8: no two rounds of an instance derive the same session id, the
\* rounds after a Canceled and a new Started included, so their nonces k
\* differ and no k signs two different transactions
C8_DistinctSessionIds ==
    \A n \in honest :
        LET s == sb[n] IN
        /\ ~s.sid_reused
        /\ (s.result = "NotReady" /\ s.msg_state \in KindSet) =>
              /\ s.session_id \in s.sid_hist
              /\ s.my_round_k = RoundK(s.session_id, s.me)
        /\ \A a \in s.signed : \A b \in s.signed : a.k = b.k => a.tx = b.tx

\* the last part of C8 alone: no nonce k of an instance signs two
\* different transactions
C8_NonceSignsOneTransaction ==
    \A n \in honest :
        \A a \in sb[n].signed : \A b \in sb[n].signed : a.k = b.k => a.tx = b.tx

\* the payload m belongs to a phase of the round of s that is over
PastPhase(s, m) ==
    /\ m.sid = s.session_id
    /\ s.msg_state \in KindSet
    /\ KindIndex(m.kind) < KindIndex(s.msg_state)

\* C11: a payload of a phase of the current round that is over, or of a
\* session id other than the current one, is discarded: once the queue
\* was examined it is not in msg_queue
C11_StaleDiscarded ==
    \A n \in honest :
        (sb[n].result = "NotReady" /\ sb[n].msg_state \in KindSet) =>
            \A k \in 1..Len(sb[n].msg_queue) :
                /\ sb[n].msg_queue[k].sid = sb[n].session_id
                /\ ~PastPhase(sb[n], sb[n].msg_queue[k])

\* the routine that follows each wait state
NextRoutine(st) ==
    CASE st = "SharedKeying" -> "commit"
      [] st = "Commitment" -> "share_cloaked_data"
      [] st = "CloakedVals" -> "make_supertransaction"
      [] st = "Signature" -> "sign_supertransaction"
      [] st = "SecretKeying" -> "blame_discovery"
      [] OTHER -> "none"

\* self and the peers whose answer to the current wait was handled and
\* passed the handler's checks
Responders(s) == {s.me} \cup (SeqToSet(s.answered) \ s.rejected)

\* C12: the expiry of the timer runs, for every wait state, the routine
\* that the answer of the last pending peer runs (commit,
\* share_cloaked_data, make_supertransaction, sign_supertransaction,
\* blame_discovery), and the routine sees as participants self and exactly
\* the peers that answered validly: a peer still pending at the expiry is
\* not among them
C12_TimerRunsSameRoutine ==
    [][\A n \in honest :
          (sb'[n] # sb[n] /\ sb[n].msg_state \in KindSet) =>
            /\ sb'[n].event = "timer" =>
                  /\ sb'[n].calls # <<>>
                  /\ sb'[n].calls[1].by = "handle_timer"
                  /\ sb'[n].calls[1].fn = NextRoutine(sb[n].msg_state)
                  /\ sb'[n].calls[1].parts = Responders(sb[n])
                  /\ sb'[n].calls[1].parts \cap sb[n].pending_participants = {}
            /\ (sb'[n].event = "message" /\ sb'[n].calls # <<>>) =>
                  /\ sb'[n].handled # <<>>
                  /\ sb[n].pending_participants = {sb'[n].handled[1].from}
                  /\ sb'[n].calls[1].by = "maybe_do"
                  /\ sb'[n].calls[1].fn = NextRoutine(sb[n].msg_state)
                  /\ sb'[n].calls[1].parts =
                        Responders(sb[n]) \cup {sb'[n].handled[1].from}]_vars

\* the timer of the Signature wait expired with a commit-phase participant
\* still pending, and sign_supertransaction ran without it
C12_Witness ==
    \E n \in honest :
        /\ sb[n].event = "timer"
        /\ sb[n].calls # <<>>
        /\ sb[n].calls[1].fn = "sign_supertransaction"
        /\ sb[n].calls[1].parts # sb[n].calls[1].cp

\* C13: in every wait state the next routine runs as soon as
\* pending_participants is empty; no instance waits with an armed timer
\* and nobody pending
C13_NoWaitWithNobodyPending ==
    \A n \in honest :
        (sb[n].result = "NotReady" /\ sb[n].msg_state \in KindSet /\ sb[n].timer)
            => sb[n].pending_participants # {}

\* every instance got the announce and no payload can be delivered any more
Quiescent ==
    /\ \A n \in honest : sb[n].poll_state # "PoolWait"
    /\ \A w \in net : ~Live(w.to)

PeerDue(n) ==
    /\ Live(n)
    /\ sb[n].msg_state \in KindSet
    /\ Speaks(sb[n].msg_state)
    /\ sb[n].pending_participants \cap Adversary # {}

\* nothing can happen any more: every payload is delivered, no timer is
\* due and the silent peer owes nothing
Settled ==
    /\ Quiescent
    /\ \A n \in honest : ~TimerDue(n) /\ ~PeerDue(n)

SentAt(s, i, k, to) ==
    \E j \in 1..Len(s.sent) :
        /\ s.sent[j].at = i
        /\ s.sent[j].kind = k
        /\ s.sent[j].to = to
        /\ \A l \in 1..Len(s.sent) : s.sent[l].at = i => l = j

\* C16: when sign_supertransaction has all signatures and the transaction
\* does not validate, SecretKeying is sent to the other current
\* participants and the SecretKeying wait is entered (and only then);
\* when every commit-phase participant has answered, blame_discovery
\* starts the next round without the participants blame reconstruction
\* returned
C16_ValidationFailureBlames ==
    \A n \in honest :
        LET s == sb[n]
            last == Len(s.calls)
        IN
        /\ \A j \in 1..Len(s.sent) :
              s.sent[j].kind = "SecretKeying" =>
                /\ s.calls[s.sent[j].at].fn = "sign_supertransaction"
                /\ s.calls[s.sent[j].at].cp \subseteq s.calls[s.sent[j].at].parts
        /\ (last >= 1 /\ s.calls[last].fn = "sign_supertransaction"
                /\ s.calls[last].cp \subseteq s.calls[last].parts) =>
              IF ValidateTransaction(s)
              THEN s.result = "Ready" /\ SentNothingAt(s, last)
              ELSE /\ s.result = "NotReady"
                   /\ SentAt(s, last, "SecretKeying", s.calls[last].parts \ {n})
                   /\ s.msg_state = "SecretKeying"
                   /\ s.timer
                   /\ s.pending_participants \cup SeqToSet(s.participants)
                        = s.calls[last].parts
        /\ \A i \in 1..last :
              (s.calls[i].fn = "blame_discovery" /\ s.calls[i].parts = s.calls[i].cp) =>
                /\ i < last
                /\ s.calls[i + 1].fn = "start"
                /\ s.calls[i + 1].by = "blame_discovery"
                /\ s.calls[i + 1].parts \subseteq s.calls[i].parts
                /\ i + 1 = last =>
                      s.calls[i + 1].parts = s.calls[i].parts \ DcReconstruct(s)

\* the transaction of four did not validate, all three peers revealed
\* their secret and the next round started without the one that was blamed
C16_Witness ==
    \E n \in honest :
        /\ Len(sb[n].calls) = 2
        /\ sb[n].calls[1].fn = "blame_discovery"
        /\ sb[n].calls[1].parts = Nodes
        /\ sb[n].calls[1].cp = Nodes
        /\ sb[n].calls[2].fn = "start"
        /\ DcReconstruct(sb[n]) # {}
        /\ sb[n].calls[2].parts = Nodes \ DcReconstruct(sb[n])
        /\ sb[n].msg_state = "SharedKeying"

\* C17: when the SecretKeying wait ends and the participants that revealed
\* their secret are not the commit-phase participants, nobody is blamed:
\* blame_discovery calls start() with exactly the participants that
\* answered, and the next round is theirs
C17_DropoutInBlameBlamesNobody ==
    \A n \in honest :
        LET s == sb[n] IN
        \A i \in 1..Len(s.calls) :
            (s.calls[i].fn = "blame_discovery" /\ s.calls[i].parts # s.calls[i].cp) =>
                /\ SentNothingAt(s, i)
                /\ i < Len(s.calls)
                /\ s.calls[i + 1].fn = "start"
                /\ s.calls[i + 1].by = "blame_discovery"
                /\ s.calls[i + 1].parts = s.calls[i].parts
                /\ IF s.calls[i].n < MIN_PARTICIPANTS
                   THEN s.result = "TooFewParticipants"
                   ELSE \E j \in 1..Len(s.waits) :
                          /\ s.waits[j].at = i + 1
                          /\ s.waits[j].st = "SharedKeying"
                          /\ s.waits[j].round = s.calls[i].round + 1
                          /\ s.waits[j].entry = s.calls[i].parts

\* the timer of the SecretKeying wait expired with one secret missing; the
\* next round started with the three that answered, among them a peer
\* whose contribution the reconstruction would have blamed
C17_Witness ==
    \E n \in honest :
        /\ sb[n].event = "timer"
        /\ Len(sb[n].calls) = 2
        /\ sb[n].calls[1].fn = "blame_discovery"
        /\ sb[n].calls[1].cp = Nodes
        /\ sb[n].calls[1].n = 3
        /\ sb[n].calls[2].parts = sb[n].calls[1].parts
        /\ \E p \in sb[n].calls[2].parts \ {n} :
              ~ContribGood(sb[n], p) /\ sb[n].sess_skeys[p].set
        /\ sb[n].msg_state = "SharedKeying"
        /\ sb[n].session_round = 2

\* the revealed contribution of p fails a check of
\* validate_uncloaked_contrib at s
FailsChecks(s, p) == ~ContribGood(s, p) \/ ~SigGood(s.signatures[p], s.trans)

\* every commit-phase peer of s revealed its true secret
AllRevealed(s) ==
    \A p \in SeqToSet(s.commit_phase_participants) \ {s.me} :
        s.sess_skeys[p].set /\ s.sess_skeys[p].ok

C19_FacilitatorChangeDeferred ==
    [][\A n \in honest :
          (/\ sb'[n] # sb[n]
           /\ sb'[n].event = "facilitator"
           /\ sb[n].poll_state = "PoolFormed")
            => sb'[n].facilitator = sb[n].facilitator]_vars

\* C20: a PoolCanceled that arrives while a round is running (pool state
\* PoolFormed, a wait state set) is deferred: wait state, timer, message
\* queue and round counter stay as they are and the pool state stays
\* PoolFormed, so the round can still complete
C20_CancelDeferredWhileRunning ==
    [][\A n \in honest :
          (/\ sb'[n] # sb[n]
           /\ sb'[n].event = "cancel"
           /\ sb[n].poll_state = "PoolFormed"
           /\ sb[n].msg_state \in KindSet)
            => /\ sb'[n].msg_state = sb[n].msg_state
               /\ sb'[n].timer = sb[n].timer
               /\ sb'[n].msg_queue = sb[n].msg_queue
               /\ sb'[n].session_round = sb[n].session_round
               /\ sb'[n].poll_state = "PoolFormed"]_vars

\* the event of s called send_pool_join
Rejoined(s) ==
    \E i \in 1..Len(s.calls) : s.calls[i].fn = "send_pool_join"

\* C21: a PoolCanceled from the expected facilitator received in PoolWait
\* or PoolRestart leaves the instance in PoolRestart with an empty message
\* queue and no timer, and without a PoolJoin; a change_facilitator in
\* PoolRestart sends a PoolJoin to the facilitator it names and keeps the
\* instance waiting for that facilitator's announce
C21_CancelRestartsAndRejoins ==
    [][\A n \in honest :
          /\ (/\ sb[n].poll_state \in {"PoolWait", "PoolRestart"}
              /\ sb'[n] = OnPoolCanceled(Begin(sb[n], "cancel"), sb[n].facilitator))
                => /\ sb'[n].poll_state = "PoolRestart"
                   /\ sb'[n].msg_queue = <<>>
                   /\ ~sb'[n].timer
                   /\ sb'[n].msg_state = "None"
                   /\ ~Rejoined(sb'[n])
                   /\ sb'[n].result = "NotReady"
          /\ (/\ sb[n].poll_state = "PoolRestart"
              /\ sb'[n] # sb[n]
              /\ sb'[n].event = "facilitator")
                => /\ Rejoined(sb'[n])
                   /\ sb'[n].joined = sb'[n].facilitator
                   /\ sb'[n].future_facilitator = NoFacilitator
                   /\ \E f \in Facilitators :
                        sb'[n] = ChangeFacilitatorOp(Begin(sb[n], "facilitator"), f)
                        /\ sb'[n].facilitator = f]_vars

\* the pool was cancelled by F1 and the instance rejoined at F2
C21_Witness ==
    \E n \in honest :
        /\ sb[n].event = "facilitator"
        /\ sb[n].poll_state = "PoolRestart"
        /\ Rejoined(sb[n])
        /\ sb[n].facilitator = "F2"
        /\ sb[n].joined = "F2"
        /\ sb[n].msg_queue = <<>>
        /\ ~sb[n].timer

\* the Started notifications an instance can receive
PoolInfos ==
    {[session_id |-> AnnouncedSid(k), list |-> list, bad |-> bad] :
        k \in 1..MaxAnnounce, list \in PoolLists \cup AnnounceLists,
        bad \in {{}} \cup {{p} : p \in faulty}}

\* C22: a PoolAnnounce of the expected facilitator that does not list the
\* local participant ends the session with NotInParticipantList, and
\* session id, participants and pool state (and round, wait state, timer
\* and queue) are what they were before the announce; no other announce
\* gives this error
C22_NotInParticipantList ==
    [][\A n \in honest :
          /\ \A info \in PoolInfos :
                (/\ n \notin SeqToSet(info.list)
                 /\ sb'[n] = OnPoolStarted(Begin(sb[n], "announce"),
                                           sb[n].facilitator, info))
                    => /\ sb'[n].result = "NotInParticipantList"
                       /\ sb'[n].session_id = sb[n].session_id
                       /\ sb'[n].participants = sb[n].participants
                       /\ sb'[n].poll_state = sb[n].poll_state
                       /\ sb'[n].session_round = sb[n].session_round
                       /\ sb'[n].msg_state = sb[n].msg_state
                       /\ sb'[n].timer = sb[n].timer
                       /\ sb'[n].msg_queue = sb[n].msg_queue
                       /\ sb'[n].calls = <<>>
                       /\ sb'[n].sent = <<>>
          /\ (sb'[n] # sb[n] /\ sb'[n].result = "NotInParticipantList")
                => /\ sb'[n].event = "announce"
                   /\ \E info \in PoolInfos :
                        /\ n \notin SeqToSet(info.list)
                        /\ sb'[n] = OnPoolStarted(Begin(sb[n], "announce"),
                                                  sb[n].facilitator, info)]_vars

\* an announce without the instance arrived while its round was running:
\* NotInParticipantList, the round's state still in place
C22_Witness ==
    \E n \in honest :
        /\ sb[n].result = "NotInParticipantList"
        /\ sb[n].event = "announce"
        /\ sb[n].poll_state = "PoolFormed"
        /\ sb[n].msg_state \in KindSet
        /\ sb[n].session_round >= 1
        /\ n \in SeqToSet(sb[n].participants)
        /\ sb[n].timer

\* C23: a pool notification (Started or Canceled) of a sender that is not
\* the expected facilitator ends the session with the error BadFacilitator
C23_BadFacilitatorSurfaces ==
    [][\A n \in honest : \A from \in Facilitators \ {sb[n].facilitator} :
          (\/ sb'[n] = OnPoolCanceled(Begin(sb[n], "cancel"), from)
           \/ \E info \in PoolInfos :
                sb'[n] = OnPoolStarted(Begin(sb[n], "announce"), from, info))
            => sb'[n].result = "BadFacilitator"]_vars

\* the participant list hashed into session id sid, as a list
HashedList(sid) == sid.chain[Len(sid.chain)][2]

C25_OnlyProtocolErrors ==
    \A n \in honest :
        LET s == sb[n]
            last == Len(s.calls)
        IN
        /\ s.my_txins = InitSb(n).my_txins
        /\ PollReturn(s)[1] = "Err" =>
              /\ PollReturn(s) = <<"Err", s.result, InitSb(n).my_txins>>
              /\ s.result \in SnowballErrors
        /\ s.result = "TooFewParticipants" =>
              /\ last >= 1
              /\ s.calls[last].fn \in PhaseRoutines
              /\ s.calls[last].n < MIN_PARTICIPANTS
        /\ s.result = "NotInParticipantList" =>
              s.event = "announce" /\ last = 0
        /\ (last >= 1 /\ s.calls[last].n >= MIN_PARTICIPANTS) =>
              PollReturn(s)[1] = "Ok"
        /\ (s.event = "message" /\ s.rejected # {} /\ last = 0) =>
              PollReturn(s) = <<"Ok", "NotReady", <<>> >>

\* the timer expired with too few answers: TooFewParticipants, returned
\* with the inputs of the instance
C25_Witness ==
    \E n \in honest :
        /\ sb[n].event = "timer"
        /\ sb[n].session_round >= 1
        /\ PollReturn(sb[n]) = <<"Err", "TooFewParticipants", <<n>> >>

\* the XOR distance of participant p to the hash of the sorted list
XorDistance(p) ==
    XorBits(lead.digest[p],
            ListHash(Sorted(lead.participants), lead.digest, lead.salt))

\* C26: leader_id returns the participant whose id hash XORed with the hash
\* of the sorted participant list is lexicographically smallest, and among
\* equal distances the lower participant id
C26_LeaderIsLexMin ==
    lead.participants # <<>> =>
        LET parts == SeqToSet(lead.participants) IN
        /\ lead.leader \in parts
        /\ \A q \in parts \ {lead.leader} :
              \/ LexLess(XorDistance(lead.leader), XorDistance(q))
              \/ /\ XorDistance(lead.leader) = XorDistance(q)
                 /\ lead.leader < q

\* C27: elections run by instances that hold the same participants, in
\* whatever order they answered, elect the same leader, a member of the
\* set; so exactly one member finds itself elected
C27_SameLeaderAnyOrder ==
    [][(/\ lead.participants # <<>>
        /\ lead'.participants # <<>>
        /\ SeqToSet(lead'.participants) = SeqToSet(lead.participants))
          => /\ lead'.leader = lead.leader
             /\ lead'.leader \in SeqToSet(lead'.participants)
             /\ Cardinality({p \in SeqToSet(lead'.participants) :
                                p = LeaderId(lead'.participants, lead'.digest,
                                             lead'.salt)}) = 1]_vars

\* an election on participants held out of order, where an election on the
\* list as held would have found another leader
C27_Witness ==
    /\ lead.participants # <<>>
    /\ ~IsSorted(lead.participants)
    /\ lead.leader \in SeqToSet(lead.participants)
    /\ lead.leader # LeaderIdUnsorted(lead.participants, lead.digest, lead.salt)

\* three instances that finished the same round: one of them is the leader,
\* and each holds the participants in sorted order
ThreeElectOneLeader ==
    (\A n \in honest : sb[n].result = "Ready") =>
        /\ Cardinality({n \in honest : sb[n].is_leader}) = 1
        /\ \A n \in honest : IsSorted(sb[n].participants)

\* the members of set S in ascending order
Ascending(S) ==
    CHOOSE q \in [1..Cardinality(S) -> S] :
        \A i \in DOMAIN q : \A j \in DOMAIN q : i < j => q[i] < q[j]

\* C28: the session id start() derives is the hash of the session id before,
\* the new round number and the participants in ascending order, each once:
\* it depends on the set of participants only, not on the order in which
\* the instance holds them; so two instances that start from the same
\* session id and round with the same set get the same session id
C28_SessionIdOfTheSet ==
    /\ \A n \in honest :
          LET s == sb[n] IN
          \A j \in 1..Len(s.waits) :
              s.waits[j].st = "SharedKeying" =>
                LET c == s.calls[s.waits[j].at] IN
                /\ c.fn = "start"
                /\ c.n = Cardinality(c.parts)
                /\ s.waits[j].round = c.round + 1
                /\ s.waits[j].sid =
                      SessionIdHash(c.sid, c.round + 1, Ascending(c.parts))
    /\ \A a \in honest : \A b \in honest :
          ( /\ sb[a].session_round >= 1
            /\ sb[a].session_round = sb[b].session_round
            /\ PrevSid(sb[a].session_id) = PrevSid(sb[b].session_id)
            /\ HashedParticipants(sb[a].session_id)
                  = HashedParticipants(sb[b].session_id) )
          => /\ sb[a].session_id = sb[b].session_id
             /\ IsSorted(HashedList(sb[a].session_id))
             /\ NoRepeats(HashedList(sb[a].session_id))

\* an instance restarted with the participants in the order they answered,
\* which is not the ascending one
C28_Witness ==
    \E n \in honest :
        LET s == sb[n] IN
        /\ Len(s.calls) >= 2
        /\ s.calls[Len(s.calls)].fn = "start"
        /\ s.calls[Len(s.calls)].by \in PhaseRoutines
        /\ s.waits # <<>>
        /\ s.waits[Len(s.waits)].st = "SharedKeying"
        /\ s.session_round = 2
        /\ \E i \in 1..Len(s.answered) : s.answered[i] < n

Suspended(s) ==
    /\ s.result = "NotReady"
    /\ \/ s.poll_state = "PoolWait"
       \/ s.msg_state \in KindSet

\* C30: at every suspension point, the wait for the pool announcement
\* (PoolWait) and the SharedKeying, Commitment, CloakedVals, Signature and
\* SecretKeying waits, the timeout is armed
C30_TimeoutAtEverySuspension ==
    \A n \in honest : Suspended(sb[n]) => sb[n].timer

\* the part of C30 that the code meets: in every wait state of a running
\* round the timeout is armed
C30_TimeoutInEveryWaitState ==
    \A n \in honest :
        (sb[n].result = "NotReady" /\ sb[n].msg_state \in KindSet) => sb[n].timer

\* C31: in every state where the session has not ended a timer is armed if
\* and only if msg_state is not None; an event that enters a wait leaves
\* the timer armed, and handle_timer never runs with msg_state = None (no
\* event that ran handle_timer ends in its panic)
C31_TimerIffWaiting ==
    \A n \in honest :
        /\ Live(n) => (sb[n].timer <=> sb[n].msg_state \in KindSet)
        /\ (Live(n) /\ sb[n].waits # <<>>) => sb[n].timer
        /\ sb[n].event = "timer" => sb[n].result # "Panic"

\* a cancel reached the instance after it had entered a wait: reset_state
\* took the timer away together with the wait state, and the session goes on
C31_Witness ==
    \E n \in honest :
        /\ Live(n)
        /\ sb[n].event = "cancel"
        /\ sb[n].sid_hist # {}
        /\ sb[n].poll_state = "PoolRestart"
        /\ sb[n].msg_state = "None"
        /\ ~sb[n].timer

\* a timer expired, handle_timer cleared it, and the wait entered by the
\* routine it ran armed it again
TimerReplaced ==
    \E n \in honest :
        /\ Live(n)
        /\ sb[n].event = "timer"
        /\ sb[n].waits # <<>>
        /\ sb[n].timer
        /\ sb[n].msg_state \in KindSet

\* C32: whenever commit() has derived the cloaks and encoded the matrix,
\* the participant list it used (commit_phase_participants) is in sorted
\* order, and so is the same sequence on every honest participant that
\* holds the same set
C32_CommitListSorted ==
    \A n \in honest :
        (Live(n) /\ sb[n].msg_state \in {"Commitment", "CloakedVals"}) =>
            /\ IsSorted(sb[n].commit_phase_participants)
            /\ \A h \in honest :
                  (/\ Live(h) /\ sb[h].msg_state \in {"Commitment", "CloakedVals"}
                   /\ sb[h].session_id = sb[n].session_id)
                  => sb[h].commit_phase_participants = sb[n].commit_phase_participants

\* what the code does keep: commit() uses the set of participants that
\* answered the SharedKeying wait, without repetition
C32_CommitListIsTheSet ==
    \A n \in honest :
        (Live(n) /\ sb[n].msg_state = "Commitment") =>
            /\ NoRepeats(sb[n].commit_phase_participants)
            /\ SeqToSet(sb[n].commit_phase_participants) = {n} \cup sb[n].pending_participants
                    \cup SeqToSet(sb[n].participants)

\* the announce handled last formed a pool and start() entered its first wait
PoolStartedBy(s) ==
    /\ s.event = "announce"
    /\ s.waits # <<>>
    /\ s.calls # <<>>
    /\ s.calls[1].fn = "start"
    /\ s.calls[1].by = "on_pool_notification"

\* C33: for every PoolAnnounce that forms a pool, in whatever pool state it
\* was received, the first round run for it uses round counter 1: its
\* session id is the hash of ("sid", announced session id, 1, sorted
\* participants)
C33_FirstRoundIsRoundOne ==
    \A n \in honest :
        PoolStartedBy(sb[n]) =>
            LET w == sb[n].waits[1] IN
            /\ w.round = 1
            /\ \E k \in 1..MaxAnnounce :
                  w.sid = SessionIdHash(AnnouncedSid(k), 1, Ascending(w.entry))

\* C34: the cloaks map of a CloakedVals sent by an honest participant has
\* exactly the keys (commit-phase participants minus the participants that
\* answered with a Commitment); the cloak shared with a participant still
\* in the current set is never revealed
C34_RevealsExactlyTheExcluded ==
    \A n \in honest : \A i \in 1..Len(sb[n].sent) :
        LET m == sb[n].sent[i] IN
        m.kind = "CloakedVals" =>
            /\ m.at \in 1..Len(sb[n].calls)
            /\ sb[n].calls[m.at].fn = "share_cloaked_data"
            /\ m.cloaks = sb[n].calls[m.at].cp \ sb[n].calls[m.at].parts
            /\ m.cloaks \cap (m.to \cup {n}) = {}

\* one of four participants did not answer the Commitment wait: the
\* CloakedVals sent to the two others reveals the cloak shared with it
C34_Witness ==
    \E n \in honest : \E i \in 1..Len(sb[n].sent) : \E p \in Nodes \ {n} :
        /\ sb[n].sent[i].kind = "CloakedVals"
        /\ sb[n].sent[i].cloaks = {p}
        /\ sb[n].sent[i].to = Nodes \ {n, p}
        /\ sb[n].calls[sb[n].sent[i].at].cp = Nodes

\* what instance s holds of peer p for the payload kind k was received
\* under the session id of the round s is in
OfThisRound(s, k, p) == s.received[k][p] = s.session_id

\* C35: what was collected from peers in an aborted round is discarded: the
\* session keys, commitments, cloaked data with exclusion cloaks, signatures
\* and secret keys held where a round uses them were received in that round
\* under its session id, the own K value is that of the round, and the
\* commitment a CloakedVals is checked against is the one its sender sent
\* in the current round
C35_AbortedRoundDiscarded ==
    \A n \in honest :
        LET s == sb[n] IN
        (Live(n) /\ s.msg_state \in KindSet) =>
            /\ s.my_round_k = RoundK(s.session_id, n)
            /\ \A p \in Nodes \ {n} :
                /\ p \in s.sess_pkeys => OfThisRound(s, "SharedKeying", p)
                /\ (s.msg_state \in {"Commitment", "CloakedVals"} /\ s.commits[p].set)
                        => OfThisRound(s, "Commitment", p)
                /\ (s.msg_state = "CloakedVals" /\ p \in s.pending_participants)
                        => (s.commits[p].set /\ OfThisRound(s, "Commitment", p))
                /\ (s.msg_state \in {"CloakedVals", "Signature", "SecretKeying"}
                    /\ (s.matrices[p].set \/ s.all_excl_cloaks[p].set))
                        => OfThisRound(s, "CloakedVals", p)
                /\ (s.msg_state \in {"Signature", "SecretKeying"} /\ s.signatures[p].set)
                        => (OfThisRound(s, "Signature", p)
                            /\ s.signatures[p].sid = s.session_id)
                /\ (s.msg_state = "SecretKeying" /\ s.sess_skeys[p].set)
                        => OfThisRound(s, "SecretKeying", p)

\* a round was aborted after a peer had sent its Commitment, and in the
\* round that followed the instance waits for the commitments again: the
\* commitment of the aborted round is gone
C35_Witness ==
    \E n \in honest : \E p \in Nodes \ {n} :
        /\ Live(n)
        /\ sb[n].session_round = 2
        /\ sb[n].msg_state = "Commitment"
        /\ sb[n].received["Commitment"][p] # StaleSid
        /\ sb[n].received["Commitment"][p] # sb[n].session_id
        /\ p \in sb[n].pending_participants
        /\ ~sb[n].commits[p].set

\* the own inputs and outputs are consistent: at most MAX_UTXOS proposed
\* outputs, no negative fee, input amounts equal to output amounts plus fee
Consistent(o) ==
    /\ Len(o.txouts) <= MAX_UTXOS
    /\ o.fee >= 0
    /\ Total(o.txins) = Total(o.txouts) + o.fee

\* C36: a local inconsistency in the own inputs and outputs (more than
\* MAX_UTXOS proposed outputs, negative fee, or input amounts not equal to
\* output amounts plus fee) aborts construction before any network I/O: no
\* PoolJoin is sent and no later phase is reached
C36_InconsistencyAbortsConstruction ==
    (own.state \notin {"none", "args"} /\ ~Consistent(own)) =>
        /\ own.state = "panic"
        /\ ~own.join_sent

\* what the code keeps of C36: with inconsistent data no commitment is
\* sent, and where no sum exceeds the integer type construction aborts
C36_NoCommitmentWhenInconsistent ==
    (own.state \notin {"none", "args"} /\ ~Consistent(own)) =>
        /\ own.state # "Commitment"
        /\ (own.build = "checked" \/ Total(own.txouts) + 1 <= AmountMax)
                => (own.state = "panic" /\ ~own.join_sent)

\* sheet sheet_id of the matrix of the construction with the cloaks taken
\* off
Uncloaked(o, sheet_id) ==
    LET cloaks == DcEncodeSheet(sheet_id, NullMsg, OwnList, 1, OwnKCloaks) IN
    [row \in 1..Len(OwnList) |-> [col \in 1..NChunks |->
        Xor(o.matrix[sheet_id][row][col], cloaks[row][col])]]

\* the matrix has exactly MAX_UTXOS sheets: one for each fresh UTXO, in the
\* row of the participant, followed by cloaked sheets of zero fill
PaddedMatrix(o) ==
    /\ DOMAIN o.matrix = 1..MAX_UTXOS
    /\ \A sheet_id \in 1..MAX_UTXOS : \A row \in 1..Len(OwnList) :
          Uncloaked(o, sheet_id)[row] =
              IF row = 1 /\ sheet_id <= Len(o.txouts)
              THEN SerializeUtxo(o.txouts[sheet_id]) ELSE NullMsg
    /\ \E sheet_id \in 1..MAX_UTXOS : \E row \in 1..Len(OwnList) :
          o.matrix[sheet_id][row] # NullMsg

\* C37: for every participant proposing n outputs, 0 <= n <= MAX_UTXOS, the
\* commit step produces a matrix of exactly MAX_UTXOS sheets, n carrying
\* the fresh UTXOs followed by MAX_UTXOS - n zero-filled cloaked sheets,
\* and broadcasts its commitment
C37_CommitPadsTheMatrix ==
    (own.state \in {"Commitment", "commit_panic"} /\ Consistent(own)) =>
        /\ own.state = "Commitment"
        /\ PaddedMatrix(own)

\* what the code keeps of C37: with one output or more the matrix has
\* MAX_UTXOS sheets, the fresh UTXOs first, and the commitment is sent
C37_PadsForOneOrMore ==
    (/\ own.state \in {"Commitment", "commit_panic"}
     /\ Consistent(own) /\ Len(own.txouts) >= 1) =>
        /\ own.state = "Commitment"
        /\ PaddedMatrix(own)

\* commit ran for a participant with two outputs
TwoOutputsCommitted ==
    own.state = "Commitment" /\ Len(own.txouts) = 2 /\ PaddedMatrix(own)

\* the participants instance s still counts on in its wait
Holding(s) == SeqToSet(s.participants) \cup s.pending_participants

\* C38: in every wait state participants and pending_participants are
\* disjoint, the local participant is in participants and not in
\* pending_participants, participants has no duplicates, and participants
\* with pending_participants stay within the set held at entry to the
\* wait; from event to event, short of a new PoolAnnounce, the set never
\* grows, so an excluded peer does not come back
C38_ParticipantsBookkeeping ==
    [][\A n \in honest :
        LET s == sb'[n] IN
        (s.result = "NotReady" /\ s.msg_state \in KindSet) =>
            /\ SeqToSet(s.participants) \cap s.pending_participants = {}
            /\ n \in SeqToSet(s.participants)
            /\ n \notin s.pending_participants
            /\ NoRepeats(s.participants)
            /\ s.waits # <<>> => Holding(s) \subseteq s.waits[Len(s.waits)].entry
            /\ (sb[n].msg_state \in KindSet /\ s # sb[n] /\ s.event # "announce") =>
                  /\ Holding(s) \subseteq Holding(sb[n])
                  /\ \A i \in 1..Len(s.waits) : s.waits[i].entry \subseteq Holding(sb[n])
    ]_vars

\* in the second round of a session an announced peer is excluded, one
\* peer has answered and another is awaited
C38_Witness ==
    \E n \in honest : \E p \in sb[n].all_txins :
        /\ sb[n].result = "NotReady"
        /\ sb[n].session_round = 2
        /\ sb[n].msg_state \in KindSet
        /\ Len(sb[n].participants) >= 2
        /\ sb[n].pending_participants # {}
        /\ p \notin Holding(sb[n])

\* C39: whenever the Signature wait is entered excl_participants is empty:
\* a round in which a commit-phase participant failed to send its
\* Commitment or a valid CloakedVals does not reach signing, and no
\* transaction is emitted from a round with revealed exclusion cloaks
C39_NoExclusionsWhenSigning ==
    \A n \in honest :
        LET s == sb[n] IN
        /\ (s.result = "NotReady" /\ s.msg_state \in {"Signature", "SecretKeying"}) =>
              /\ s.excl_participants = <<>>
              /\ \A p \in SeqToSet(s.commit_phase_participants) \ {n} :
                    s.matrices[p].set /\ s.all_excl_cloaks[p].keys = {}
        /\ \A i \in 1..Len(s.waits) :
              s.waits[i].st = "Signature" =>
                  /\ s.excl_participants = <<>>
                  /\ s.waits[i].entry = s.waits[i].cp
        /\ s.result = "Ready" => s.excl_participants = <<>>

\* the Signature wait of a second round is entered: a peer of the first
\* round is gone, and the three that are left all sent their Commitment
\* and a valid CloakedVals
C39_Witness ==
    \E n \in honest : \E p \in sb[n].all_txins :
        /\ sb[n].result = "NotReady"
        /\ sb[n].session_round = 2
        /\ sb[n].waits # <<>>
        /\ sb[n].waits[Len(sb[n].waits)].st = "Signature"
        /\ sb[n].msg_state = "Signature"
        /\ p \notin SeqToSet(sb[n].commit_phase_participants)
        /\ sb[n].excl_participants = <<>>

\* a peer did not answer the Commitment wait, its cloaks were revealed, and
\* the round was given up at make_supertransaction
RoundWithExclusionAborted ==
    \E n \in honest : \E i \in 1..Len(sb[n].calls) :
        /\ sb[n].calls[i].fn = "start"
        /\ sb[n].calls[i].by = "make_supertransaction"
        /\ sb[n].excl_participants # <<>>
        /\ sb[n].msg_state = "SharedKeying"

\* the whole state of a session, apart from the note of what the last
\* event was
SessionState(s) == [s EXCEPT !.event = ""]

\* C40: an inbound envelope whose declared source differs from the
\* transport-level sender, or whose destination is not the local
\* participant, or that does not decode, leaves the whole session state
\* unchanged: it is neither handled nor placed in msg_queue, and nothing is
\* sent
C40_MalformedEnvelopeIgnored ==
    [][\A n \in honest : \A env \in Envelopes(n) :
        (/\ ~WellFormed(sb[n], env)
         /\ sb'[n] # sb[n]
         /\ sb'[n] = PollEnvelope(sb[n], env)) =>
            /\ SessionState(sb'[n]) = SessionState(sb[n])
            /\ net' = net
    ]_vars

\* an envelope was dropped while the instance waited for the CloakedVals
\* of two peers: nothing is queued, both are still awaited
C40_Witness ==
    \E n \in honest :
        /\ sb[n].event = "dropped"
        /\ sb[n].msg_state = "CloakedVals"
        /\ Cardinality(sb[n].pending_participants) = 2
        /\ sb[n].msg_queue = <<>>
        /\ sb[n].handled = <<>>

====
